---- MODULE Spec2Model ----
(***************************************************************************)
(* A model of renderAnsi() (src/src/render-ansi.js) together with its      *)
(* argument validators (src/src/validate-args.js) and its signed distance  *)
(* functions and bounding boxes (src/src/sdf-and-aabb.js).                 *)
(*                                                                         *)
(* One invocation of renderAnsi is a run of the state machine              *)
(*   idle -> (threw | validated -> canvas -> loop -> encode -> done)       *)
(*        -> idle                                                          *)
(* The pixel loop is taken one ShapeLoop iteration at a time.              *)
(*                                                                         *)
(* Numbers.  A JavaScript number that is an argument is held as an integer *)
(* count of 1/NumDen (so 41 is 10.25).  A world-space length is held as an *)
(* integer count of 1/WorldScale world units; for the canvases of the      *)
(* model every division the renderer makes on lengths is exact at that     *)
(* scale.  Math.sqrt is rounded to the nearest 1/WorldScale.  An alpha is  *)
(* held as an exact fraction [n, d].                                       *)
(***************************************************************************)
EXTENDS Integers, Sequences, FiniteSets, TLC

VARIABLES
    pc,          \* where the invocation is: idle, threw, validated, canvas, loop, encode, done
    args,        \* the five arguments as the caller passed them
    colorDepth,  \* the colorDepth parameter after its default is applied
    err,         \* the error thrown by the invocation, or NoError
    pixelCanvas, \* the pixel grid pixelCanvas[y][x], or NoCanvas before it is created
    x, y, si,    \* the counters of the pixel loop and of ShapeLoop
    loc,         \* the locals of the last ShapeLoop iteration
    result,      \* the returned string (a sequence of characters), or NoResult
    memo,        \* a completed call remembered by the caller: its arguments and its result
    probe        \* the inputs and outputs of a function applied on its own

vars == <<pc, args, colorDepth, err, pixelCanvas, x, y, si, loc, result, memo, probe>>

----------------------------------------------------------------------------
(* Representation of numbers *)

NumDen == 4

WorldScale == 240

\* Math.round of the fraction n/d, d > 0: the nearest integer, halves up.
MathRound(n, d) == (2 * n + d) \div (2 * d)

Abs(n) == IF n < 0 THEN -n ELSE n

Min2(a, b) == IF a < b THEN a ELSE b

Max2(a, b) == IF a > b THEN a ELSE b

Sign(n) == IF n > 0 THEN 1 ELSE IF n < 0 THEN -1 ELSE 0

RECURSIVE SqrtBits(_, _, _)
\* The floor square root of n, built from the highest bit b down.
SqrtBits(n, b, acc) ==
    IF b = 0 THEN acc
    ELSE IF (acc + b) * (acc + b) <= n
         THEN SqrtBits(n, b \div 2, acc + b)
         ELSE SqrtBits(n, b \div 2, acc)

\* Math.sqrt, rounded to the nearest integer (n < 2^30).
MathSqrt(n) ==
    LET s == SqrtBits(n, 16384, 0)
    IN  IF n - s * s > s THEN s + 1 ELSE s

----------------------------------------------------------------------------
(* JavaScript values *)

Undefined == [t |-> "undefined"]

Null == [t |-> "null"]

NaN == [t |-> "NaN"]

Bool(b) == [t |-> "boolean", b |-> b]

\* The number n / NumDen.
Num(n) == [t |-> "number", n |-> n]

\* The integer i.
JsInt(i) == Num(i * NumDen)

Str(s) == [t |-> "string", s |-> s]

Arr(items) == [t |-> "array", items |-> items]

\* typeof v
Typeof(v) ==
    CASE v.t = "null"  -> "object"
      [] v.t = "array" -> "object"
      [] v.t = "NaN"   -> "number"
      [] OTHER         -> v.t

\* Array.isArray(v)
IsArray(v) == v.t = "array"

\* Object.prototype.hasOwnProperty.call(o, name), for a plain object o
HasOwn(o, name) == name \in DOMAIN o

\* o[name] for a plain object o: undefined when the property is absent
Prop(o, name) == IF name \in DOMAIN o THEN o[name] ELSE Undefined

\* Number.isInteger(v)
IsInteger(v) == v.t = "number" /\ v.n % NumDen = 0

\* The integer value of an integer number
IntOf(v) == v.n \div NumDen

----------------------------------------------------------------------------
(* src/src/validate-args.js *)

\* A range test that lets fractions pass.
isNumInRange(num, min, max) ==
    num.t = "number" /\ num.n >= min * NumDen /\ num.n <= max * NumDen

isIntInRange(num, min, max) ==
    IsInteger(num) /\ num.n >= min * NumDen /\ num.n <= max * NumDen

isFloatInRange(num, min, max) ==
    num.t = "number" /\ num.n >= min * NumDen /\ num.n <= max * NumDen

isValidColor(color) ==
    IF Typeof(color) # "object" \/ color.t = "null" \/ IsArray(color) THEN FALSE
    ELSE IF ~HasOwn(color, "red") \/ ~HasOwn(color, "green") \/ ~HasOwn(color, "blue") THEN FALSE
    ELSE IF Typeof(color.red) # "number" \/ ~isIntInRange(color.red, 0, 255) THEN FALSE
    ELSE IF Typeof(color.green) # "number" \/ ~isIntInRange(color.green, 0, 255) THEN FALSE
    ELSE IF Typeof(color.blue) # "number" \/ ~isIntInRange(color.blue, 0, 255) THEN FALSE
    ELSE TRUE

Patterns == {"breton", "pinstripe"}

isValidPattern(pattern) == pattern.t = "string" /\ pattern.s \in Patterns

NoError == [name |-> "none"]

\* An error: its constructor (TypeError or RangeError), the argument, the index of
\* the shape (-1 outside shapes), the field path under it, and the constraint the
\* message states (with the typeof or the 'null'/'array' it quotes).
Throw(name, arg, index, field, what, got) ==
    [name |-> name, arg |-> arg, index |-> index, field |-> field,
     what |-> what, got |-> got]

NullOrArray(v) == IF v.t = "null" THEN "null" ELSE "array"

validateBackground(background) ==
    IF background.t = "null" \/ IsArray(background)
    THEN Throw("TypeError", "background", -1, "", "not a plain object", NullOrArray(background))
    ELSE IF Typeof(background) # "object"
    THEN Throw("TypeError", "background", -1, "", "not 'object'", Typeof(background))
    ELSE IF ~isValidColor(Prop(background, "ink"))
    THEN Throw("RangeError", "background", -1, "ink", "is not a valid color", "")
    ELSE IF ~isValidColor(Prop(background, "paper"))
    THEN Throw("RangeError", "background", -1, "paper", "is not a valid color", "")
    ELSE IF Typeof(Prop(background, "pattern")) # "string"
    THEN Throw("TypeError", "background", -1, "pattern", "not 'string'",
               Typeof(Prop(background, "pattern")))
    ELSE IF ~isValidPattern(Prop(background, "pattern"))
    THEN Throw("RangeError", "background", -1, "pattern", "is not a valid pattern", "")
    ELSE NoError

\* The accepted kinds with a kind that has no SDF among them.
KindsAndHexagon == {"circle", "square", "triangle", "hexagon"}

Kinds == {"circle", "square", "triangle"}

StrokePositions == {"inside", "center", "outside"}

\* The checks of validateShape on the position, once it is known to be an object.
validatePosition(position, index) ==
    IF Typeof(Prop(position, "x")) # "number"
    THEN Throw("TypeError", "shapes", index, "position.x", "not 'number'",
               Typeof(Prop(position, "x")))
    ELSE IF ~isIntInRange(Prop(position, "x"), -1000, 1000)
    THEN Throw("RangeError", "shapes", index, "position.x",
               "must be an integer between -1000 and 1000", "")
    ELSE IF Typeof(Prop(position, "y")) # "number"
    THEN Throw("TypeError", "shapes", index, "position.y", "not 'number'",
               Typeof(Prop(position, "y")))
    ELSE IF ~isIntInRange(Prop(position, "y"), -1000, 1000)
    THEN Throw("RangeError", "shapes", index, "position.y",
               "must be an integer between -1000 and 1000", "")
    ELSE NoError

\* The checks of validateShape on the three stroke properties.
validateStroke(shape, index) ==
    LET strokeWidth    == Prop(shape, "strokeWidth")
        strokePosition == Prop(shape, "strokePosition")
        strokeColor    == Prop(shape, "strokeColor")
    IN  IF Typeof(strokeWidth) # "number"
        THEN Throw("TypeError", "shapes", index, "strokeWidth", "not 'number'",
                   Typeof(strokeWidth))
        ELSE IF ~isFloatInRange(strokeWidth, 0, 10)
        THEN Throw("RangeError", "shapes", index, "strokeWidth",
                   "must be a number between 0 and 10", "")
        ELSE IF Typeof(strokePosition) # "string"
        THEN Throw("TypeError", "shapes", index, "strokePosition", "not 'string'",
                   Typeof(strokePosition))
        ELSE IF strokePosition.s \notin StrokePositions
        THEN Throw("RangeError", "shapes", index, "strokePosition",
                   "must be one of 'inside', 'center', or 'outside'", "")
        ELSE IF strokeColor.t = "null" \/ IsArray(strokeColor)
        THEN Throw("TypeError", "shapes", index, "strokeColor", "not a plain object",
                   NullOrArray(strokeColor))
        ELSE IF ~isValidColor(strokeColor)
        THEN Throw("RangeError", "shapes", index, "strokeColor", "is not a valid color", "")
        ELSE NoError

\* The checks of validateShape on ink, paper and pattern.
validateFill(shape, index) ==
    LET ink     == Prop(shape, "ink")
        paper   == Prop(shape, "paper")
        pattern == Prop(shape, "pattern")
    IN  IF ink.t = "null" \/ IsArray(ink)
        THEN Throw("TypeError", "shapes", index, "ink", "not a plain object", NullOrArray(ink))
        ELSE IF ~isValidColor(ink)
        THEN Throw("RangeError", "shapes", index, "ink", "is not a valid color", "")
        ELSE IF paper.t = "null" \/ IsArray(paper)
        THEN Throw("TypeError", "shapes", index, "paper", "not a plain object",
                   NullOrArray(paper))
        ELSE IF ~isValidColor(paper)
        THEN Throw("RangeError", "shapes", index, "paper", "is not a valid color", "")
        ELSE IF Typeof(pattern) # "string"
        THEN Throw("TypeError", "shapes", index, "pattern", "not 'string'", Typeof(pattern))
        ELSE IF ~isValidPattern(pattern)
        THEN Throw("RangeError", "shapes", index, "pattern", "is not a valid pattern", "")
        ELSE NoError

\* A check of the stroke properties alone.
validateShapeStrokeOnly(shape, index) == validateStroke(shape, index)

\* A check that lets every shape pass.
validateShapeLax(shape, index) == NoError

validateShape(shape, index) ==
    IF shape.t = "null" \/ IsArray(shape)
    THEN Throw("TypeError", "shapes", index, "", "not a plain object", NullOrArray(shape))
    ELSE IF Typeof(shape) # "object"
    THEN Throw("TypeError", "shapes", index, "", "not 'object'", Typeof(shape))
    ELSE IF Typeof(Prop(shape, "kind")) # "string"
    THEN Throw("TypeError", "shapes", index, "kind", "not 'string'", Typeof(Prop(shape, "kind")))
    ELSE IF Prop(shape, "kind").s \notin Kinds
    THEN Throw("RangeError", "shapes", index, "kind",
               "must be one of 'circle', 'square', or 'triangle'", "")
    ELSE IF Typeof(Prop(shape, "size")) # "number"
    THEN Throw("TypeError", "shapes", index, "size", "not 'number'", Typeof(Prop(shape, "size")))
    ELSE IF ~isIntInRange(Prop(shape, "size"), 1, 100)
    THEN Throw("RangeError", "shapes", index, "size",
               "must be an integer between 1 and 100", "")
    ELSE IF Prop(shape, "position").t = "null" \/ IsArray(Prop(shape, "position"))
    THEN Throw("TypeError", "shapes", index, "position", "not a plain object",
               NullOrArray(Prop(shape, "position")))
    ELSE IF Typeof(Prop(shape, "position")) # "object"
    THEN Throw("TypeError", "shapes", index, "position", "not 'object'",
               Typeof(Prop(shape, "position")))
    ELSE IF validatePosition(shape.position, index) # NoError
    THEN validatePosition(shape.position, index)
    ELSE IF validateFill(shape, index) # NoError
    THEN validateFill(shape, index)
    ELSE validateStroke(shape, index)

\* The first violation found by the argument checks of renderAnsi, or NoError.
\* colorDepthParam is the colorDepth parameter after its default is applied.
validateArgs(canvasWidth, canvasHeight, background, shapes, colorDepthParam) ==
    LET shapeErrors == IF IsArray(shapes)
                       THEN {i \in 1..Len(shapes.items) :
                                validateShape(shapes.items[i], i - 1) # NoError}
                       ELSE {}
        firstBad    == CHOOSE i \in shapeErrors : \A j \in shapeErrors : i <= j
    IN  IF Typeof(canvasWidth) # "number"
        THEN Throw("TypeError", "canvasWidth", -1, "", "not 'number'", Typeof(canvasWidth))
        ELSE IF ~isIntInRange(canvasWidth, 1, 120)
        THEN Throw("RangeError", "canvasWidth", -1, "",
                   "must be an integer between 1 and 120", "")
        ELSE IF Typeof(canvasHeight) # "number"
        THEN Throw("TypeError", "canvasHeight", -1, "", "not 'number'", Typeof(canvasHeight))
        ELSE IF ~isIntInRange(canvasHeight, 2, 64)
        THEN Throw("RangeError", "canvasHeight", -1, "",
                   "must be an integer between 2 and 64", "")
        ELSE IF IntOf(canvasHeight) % 2 # 0
        THEN Throw("RangeError", "canvasHeight", -1, "", "must be an even number", "")
        ELSE IF validateBackground(background) # NoError
        THEN validateBackground(background)
        ELSE IF shapes.t = "null"
        THEN Throw("TypeError", "shapes", -1, "", "is null not an array", "")
        ELSE IF ~IsArray(shapes)
        THEN Throw("TypeError", "shapes", -1, "", "not 'array'", Typeof(shapes))
        ELSE IF shapeErrors # {}
        THEN validateShape(shapes.items[firstBad], firstBad - 1)
        ELSE IF Typeof(colorDepthParam) # "string"
        THEN Throw("TypeError", "colorDepth", -1, "", "not 'string'", Typeof(colorDepthParam))
        ELSE IF colorDepthParam.s \notin {"truecolor", "256", "monochrome"}
        THEN Throw("RangeError", "colorDepth", -1, "",
                   "must be one of 'truecolor', '256' or 'monochrome'", "")
        ELSE NoError

----------------------------------------------------------------------------
(* Validated arguments read as numbers of the model *)

\* A validated colour record as three integer channels.
ColorOf(color) ==
    [red |-> IntOf(color.red), green |-> IntOf(color.green), blue |-> IntOf(color.blue)]

\* shape.size and shape.position, as lengths.
SizeOf(shape) == IntOf(shape.size) * WorldScale

PosX(shape) == IntOf(shape.position.x) * WorldScale

PosY(shape) == IntOf(shape.position.y) * WorldScale

----------------------------------------------------------------------------
(* src/src/sdf-and-aabb.js *)

sdfCircle(px, py, radius) == MathSqrt(px * px + py * py) - radius

\* A box around the circle alone, leaving out the expansion.
aabbCircleTight(shape, expand) ==
    LET cx == PosX(shape)
        cy == PosY(shape)
        r  == Abs(SizeOf(shape))
    IN  [minX |-> cx - r, maxX |-> cx + r, minY |-> cy - r, maxY |-> cy + r]

aabbCircle(shape, expand) ==
    LET cx == PosX(shape)
        cy == PosY(shape)
        r  == Abs(SizeOf(shape)) + expand
    IN  [minX |-> cx - r, maxX |-> cx + r, minY |-> cy - r, maxY |-> cy + r]

sdfSquare(px, py, halfSize) ==
    LET dx == Abs(px) - halfSize
        dy == Abs(py) - halfSize
        ax == Max2(dx, 0)
        ay == Max2(dy, 0)
        outsideDist == MathSqrt(ax * ax + ay * ay)
        insideDist  == Min2(Max2(dx, dy), 0)
    IN  outsideDist + insideDist

aabbSquare(shape, expand) ==
    LET cx == PosX(shape)
        cy == PosY(shape)
        hx == Abs(SizeOf(shape)) + expand
        hy == Abs(SizeOf(shape)) + expand
    IN  [minX |-> cx - hx, maxX |-> cx + hx, minY |-> cy - hy, maxY |-> cy + hy]

\* The triangle's intermediate values are numbers (a + b * sqrt(3)) / 6, held as
\* [a, b], so that its comparisons and Math.sign are decided exactly; only the
\* final length is rounded.
Surd(a, b) == [a |-> a, b |-> b]

\* k * v for k = Math.sqrt(3.0)
SurdTimesK(v) == Surd(3 * v.b, v.a)

SurdAdd(u, v) == Surd(u.a + v.a, u.b + v.b)

SurdNeg(v) == Surd(-v.a, -v.b)

SurdHalf(v) == Surd(v.a \div 2, v.b \div 2)

\* Math.sign(v)
SurdSign(v) ==
    IF v.a >= 0 /\ v.b >= 0 THEN (IF v.a = 0 /\ v.b = 0 THEN 0 ELSE 1)
    ELSE IF v.a <= 0 /\ v.b <= 0 THEN -1
    ELSE IF v.a > 0 THEN Sign(v.a * v.a - 3 * v.b * v.b)
    ELSE Sign(3 * v.b * v.b - v.a * v.a)

Sqrt3Num == 1351

Sqrt3Den == 780

\* The value of v as a length, rounded to the nearest unit.
SurdLength(v) == MathRound(v.a * Sqrt3Den + v.b * Sqrt3Num, 6 * Sqrt3Den)

sdfTriangle(px, pyDown, r) ==
    LET py == -pyDown
        x0 == Surd(6 * (Abs(px) - r), 0)
        y0 == Surd(6 * py, 2 * r)
        fold == SurdSign(SurdAdd(x0, SurdTimesK(y0))) > 0
        x1 == IF fold THEN SurdHalf(SurdAdd(x0, SurdNeg(SurdTimesK(y0)))) ELSE x0
        y1 == IF fold THEN SurdHalf(SurdAdd(SurdNeg(SurdTimesK(x0)), SurdNeg(y0))) ELSE y0
        \* clamped = Math.min(Math.max(x, -2.0 * r), 0.0)
        clamped == IF SurdSign(x1) > 0 THEN Surd(0, 0)
                   ELSE IF SurdSign(SurdAdd(x1, Surd(12 * r, 0))) < 0 THEN Surd(-12 * r, 0)
                   ELSE x1
        x2 == SurdAdd(x1, SurdNeg(clamped))
        xl == SurdLength(x2)
        yl == SurdLength(y1)
        dist == MathSqrt(xl * xl + yl * yl)
    IN  (-dist) * SurdSign(y1)

\* A triangle box as high as it is wide.
aabbTriangleUnit(shape, expand) ==
    LET cx == PosX(shape)
        cy == PosY(shape)
        hx == Abs(SizeOf(shape)) + expand
    IN  [minX |-> cx - hx, maxX |-> cx + hx, minY |-> cy - hx, maxY |-> cy + hx]

aabbTriangle(shape, expand) ==
    LET cx == PosX(shape)
        cy == PosY(shape)
        hx == Abs(SizeOf(shape)) + expand
        hy == (Abs(SizeOf(shape)) * 12) \div 10 + expand
    IN  [minX |-> cx - hx, maxX |-> cx + hx, minY |-> cy - hy, maxY |-> cy + hy]

----------------------------------------------------------------------------
(* src/src/render-ansi.js: the scene preprocessor *)

ENABLE_BOX_CULLING == TRUE

\* A default of 'monochrome'.
MonochromeColorDepth == Str("monochrome")

\* A default that remembers the depth of the call before.
StickyColorDepth == IF colorDepth.t = "undefined" THEN Str("truecolor") ELSE colorDepth

DefaultColorDepth == Str("truecolor")

Black == [red |-> 0, green |-> 0, blue |-> 0]

worldUnitsPerPixel(w, h) == (10 * WorldScale) \div Min2(w, h)

\* aaRegionPixels * worldUnitsPerPixel, with aaRegionPixels = 0.85
\* An anti-aliasing region of no width.
aaRegionNone(w, h) == 0

aaRegion(w, h) == (85 * worldUnitsPerPixel(w, h)) \div 100

\* A box that is not extended for the stroke.
outwardExtensionNone(shape, w, h) == 0

\* The outward extension of a shape's box for its stroke.
outwardExtension(shape, w, h) ==
    LET strokePx    == IF Typeof(Prop(shape, "strokeWidth")) = "number"
                       THEN shape.strokeWidth.n ELSE 0
        strokeWorld == (strokePx * worldUnitsPerPixel(w, h)) \div NumDen
        position    == Prop(shape, "strokePosition")
    IN  IF position = Str("outside") THEN strokeWorld
        ELSE IF position = Str("inside") THEN 0
        ELSE strokeWorld \div 2

\* One element of shapeBoxes.
shapeBox(shape, w, h) ==
    LET expand == aaRegion(w, h) + outwardExtension(shape, w, h)
    IN  CASE shape.kind.s = "circle"   -> aabbCircle(shape, expand)
          [] shape.kind.s = "square"   -> aabbSquare(shape, expand)
          [] shape.kind.s = "triangle" -> aabbTriangle(shape, expand)
          [] OTHER -> [minX |-> -1000000 * WorldScale, maxX |-> 1000000 * WorldScale,
                       minY |-> -1000000 * WorldScale, maxY |-> 1000000 * WorldScale]

\* aspectRatio >= 1 is canvasWidth >= canvasHeight
worldWidth(w, h) == IF w >= h THEN (10 * WorldScale * w) \div h ELSE 10 * WorldScale

\* A world that is 10 units high whatever the canvas.
worldHeightTen(w, h) == 10 * WorldScale

worldHeight(w, h) == IF w >= h THEN 10 * WorldScale ELSE (10 * WorldScale * h) \div w

\* worldXs[i] = ((i + 0.5) * invCanvasWidth - 0.5) * worldWidth
worldXs(i, w, h) == ((2 * i + 1 - w) * worldWidth(w, h)) \div (2 * w)

\* worldYs[j] = ((j + 0.5) * invCanvasHeight - 0.5) * worldHeight
worldYs(j, w, h) == ((2 * j + 1 - h) * worldHeight(w, h)) \div (2 * h)

----------------------------------------------------------------------------
(* src/src/render-ansi.js: the pixel compositor *)

\* A fill of the ink alone.
sampleShapeInk(shape, col, row) == shape.ink

sampleShapePattern(shape, col, row) ==
    CASE shape.pattern.s = "breton"    -> IF row % 2 = 0 THEN shape.ink ELSE shape.paper
      [] shape.pattern.s = "pinstripe" -> IF col % 2 = 0 THEN shape.ink ELSE shape.paper
      [] OTHER -> shape.ink

\* The kinds with a case in the switch of shapeBoxes, and in the switch of the
\* shape loop.
BoxKinds == {"circle", "square", "triangle"}

SdfKinds == {"circle", "square", "triangle"}

\* The signed distance of a world point to a shape of a kind with a case in the
\* switch.
\* The dispatch with the y offset of every kind taken upwards.
shapeDistanceFlipped(shape, worldX, worldY) ==
    CASE shape.kind.s = "circle" ->
            sdfCircle(worldX - PosX(shape), PosY(shape) - worldY, SizeOf(shape))
      [] shape.kind.s = "square" ->
            sdfSquare(worldX - PosX(shape), PosY(shape) - worldY, SizeOf(shape))
      [] shape.kind.s = "triangle" ->
            sdfTriangle(worldX - PosX(shape), PosY(shape) - worldY, SizeOf(shape))

shapeDistance(shape, worldX, worldY) ==
    CASE shape.kind.s = "circle" ->
            sdfCircle(worldX - PosX(shape), worldY - PosY(shape), SizeOf(shape))
      [] shape.kind.s = "square" ->
            sdfSquare(worldX - PosX(shape), worldY - PosY(shape), SizeOf(shape))
      [] shape.kind.s = "triangle" ->
            sdfTriangle(worldX - PosX(shape), worldY - PosY(shape), SizeOf(shape))

\* A fill with a hard edge at the boundary.
fillAlphaHard(distance, aa) ==
    IF distance < 0 THEN [n |-> aa, d |-> aa] ELSE [n |-> 0, d |-> aa]

\* Fill alpha as the fraction n / d, d = aaRegion.
fillAlphaAt(distance, aa) ==
    IF distance < aa \div 2
    THEN [n |-> Max2(0, Min2(aa, (-distance) + aa \div 2)), d |-> aa]
    ELSE [n |-> 0, d |-> aa]

\* Whether the shape has a stroke to draw.
hasStroke(shape) ==
    /\ Typeof(Prop(shape, "strokeWidth")) = "number"
    /\ shape.strokeWidth.n > 0
    /\ Typeof(Prop(shape, "strokeColor")) = "object"
    /\ Prop(shape, "strokeColor").t # "null"

\* The stroke band [bandMin, bandMax] of a shape.
strokeBand(shape, wupp) ==
    LET strokeWidthWorld == (shape.strokeWidth.n * wupp) \div NumDen
        position         == Prop(shape, "strokePosition")
    IN  IF position = Str("inside") THEN [bandMin |-> -strokeWidthWorld, bandMax |-> 0]
        ELSE IF position = Str("outside") THEN [bandMin |-> 0, bandMax |-> strokeWidthWorld]
        ELSE [bandMin |-> (-strokeWidthWorld) \div 2, bandMax |-> strokeWidthWorld \div 2]

\* A stroke without a ramp at the edges of its band.
strokeAlphaBand(shape, distance, wupp, aa) ==
    LET band == strokeBand(shape, wupp)
    IN  IF distance >= band.bandMin /\ distance <= band.bandMax
        THEN [n |-> aa \div 2, d |-> aa \div 2]
        ELSE [n |-> 0, d |-> aa \div 2]

\* Stroke alpha as the fraction n / d, d = aaEdge = aaRegion / 2.
strokeAlphaAt(shape, distance, wupp, aa) ==
    LET aaEdge == aa \div 2
    IN  IF hasStroke(shape)
        THEN LET band == strokeBand(shape, wupp)
                 distToBand == IF distance < band.bandMin THEN band.bandMin - distance
                               ELSE IF distance > band.bandMax THEN distance - band.bandMax
                               ELSE 0
             IN  IF distToBand = 0 THEN [n |-> aaEdge, d |-> aaEdge]
                 ELSE IF distToBand < aaEdge THEN [n |-> aaEdge - distToBand, d |-> aaEdge]
                 ELSE [n |-> 0, d |-> aaEdge]
        ELSE [n |-> 0, d |-> aaEdge]

\* outA = strokeA + fillA * (1 - strokeA), as a fraction over fillA.d * strokeA.d
\* The product of the two alphas in place of stroke over fill.
combinedAlphaProduct(fillA, strokeA) ==
    [n |-> strokeA.n * fillA.n, d |-> fillA.d * strokeA.d]

combinedAlpha(fillA, strokeA) ==
    [n |-> strokeA.n * fillA.d + fillA.n * (strokeA.d - strokeA.n), d |-> fillA.d * strokeA.d]

\* premul = stroke * strokeA + fill * fillA * (1 - strokeA), one channel, as the
\* numerator over fillA.d * strokeA.d
premul(strokeC, fillC, fillA, strokeA) ==
    strokeC * strokeA.n * fillA.d + fillC * fillA.n * (strokeA.d - strokeA.n)

\* The shape's colour at the pixel: stroke composited over fill, un-premultiplied.
shapeColor(strokeCol, fillSample, fillA, strokeA) ==
    LET outA == combinedAlpha(fillA, strokeA)
    IN  IF outA.n > 0
        THEN [red   |-> MathRound(premul(strokeCol.red, fillSample.red, fillA, strokeA), outA.n),
              green |-> MathRound(premul(strokeCol.green, fillSample.green, fillA, strokeA), outA.n),
              blue  |-> MathRound(premul(strokeCol.blue, fillSample.blue, fillA, strokeA), outA.n),
              alpha |-> outA]
        ELSE [red |-> 0, green |-> 0, blue |-> 0, alpha |-> outA]

\* One channel of existing over color: the earlier paint stays on top.
blendUnder(c, alpha, existing) ==
    IF existing > 0 THEN existing ELSE MathRound(c * alpha.n, alpha.d)

\* One channel of color over existing.
\* A blend that adds the shape's share to the whole of the existing channel.
blendChannelSum(c, alpha, existing) ==
    MathRound(c * alpha.n + existing * alpha.d, alpha.d)

blendChannel(c, alpha, existing) ==
    MathRound(c * alpha.n + existing * (alpha.d - alpha.n), alpha.d)

\* The blend of a shape's colour onto a cell of the canvas.
blend(color, existing) ==
    IF color.alpha.n > 0
    THEN [red   |-> blendChannel(color.red, color.alpha, existing.red),
          green |-> blendChannel(color.green, color.alpha, existing.green),
          blue  |-> blendChannel(color.blue, color.alpha, existing.blue)]
    ELSE existing

\* The locals of a ShapeLoop iteration that left the pixel alone before any alpha
\* was computed.
NoLocals ==
    [x |-> -1, y |-> -1, si |-> -1, culled |-> FALSE, distance |-> 0,
     fillAlpha |-> [n |-> 0, d |-> 1], strokeAlpha |-> [n |-> 0, d |-> 1],
     color |-> [red |-> 0, green |-> 0, blue |-> 0, alpha |-> [n |-> 0, d |-> 1]],
     blended |-> FALSE, existing |-> Black]

\* An iteration that paints the cell black and reports the shape as culled.
shapeLoopBlack(culling, shapes, w, h, col, row, k, existing) ==
    [cell |-> Black,
     loc  |-> [NoLocals EXCEPT !.x = col, !.y = row, !.si = k, !.existing = existing,
                               !.culled = TRUE],
     unimplemented |-> FALSE]

\* One iteration of ShapeLoop: shape k (from 0) at pixel (col, row) of a w by h
\* canvas whose cell there holds existing.  Gives the cell afterwards and the
\* iteration's locals.
shapeLoop(culling, shapes, w, h, col, row, k, existing) ==
    LET shape  == shapes[k + 1]
        worldX == worldXs(col, w, h)
        worldY == worldYs(row, w, h)
        box    == shapeBox(shape, w, h)
        culled == culling /\ (worldX < box.minX \/ worldX > box.maxX
                              \/ worldY < box.minY \/ worldY > box.maxY)
        aa       == aaRegion(w, h)
        distance == shapeDistance(shape, worldX, worldY)
        fillSample == ColorOf(sampleShapePattern(shape, col, row))
        fillA    == fillAlphaAt(distance, aa)
        strokeA  == strokeAlphaAt(shape, distance, worldUnitsPerPixel(w, h), aa)
        strokeCol == IF hasStroke(shape) THEN ColorOf(shape.strokeColor) ELSE Black
        color    == shapeColor(strokeCol, fillSample, fillA, strokeA)
        here     == [NoLocals EXCEPT !.x = col, !.y = row, !.si = k, !.existing = existing]
    IN  IF culled
        THEN [cell |-> existing, loc |-> [here EXCEPT !.culled = TRUE], unimplemented |-> FALSE]
        ELSE IF shape.kind.s \notin SdfKinds
        THEN [cell |-> existing, loc |-> here, unimplemented |-> TRUE]
        ELSE IF fillA.n = 0 /\ strokeA.n = 0
        THEN [cell |-> existing,
              loc  |-> [here EXCEPT !.distance = distance, !.fillAlpha = fillA,
                                    !.strokeAlpha = strokeA],
              unimplemented |-> FALSE]
        ELSE [cell |-> blend(color, existing),
              loc  |-> [here EXCEPT !.distance = distance, !.fillAlpha = fillA,
                                    !.strokeAlpha = strokeA, !.color = color,
                                    !.blended = color.alpha.n > 0],
              unimplemented |-> FALSE]

----------------------------------------------------------------------------
(* src/src/render-ansi.js: the background and the cell encoder *)

\* The canvas after drawBackgroundBreton / drawBackgroundPinstripe: the grid keeps
\* the dimensions it has.
drawBackground(canvas, background) ==
    LET ink   == ColorOf(background.ink)
        paper == ColorOf(background.paper)
    IN  CASE background.pattern.s = "breton" ->
                [row \in DOMAIN canvas |->
                    [col \in DOMAIN canvas[row] |-> IF row % 2 = 0 THEN ink ELSE paper]]
          [] background.pattern.s = "pinstripe" ->
                [row \in DOMAIN canvas |->
                    [col \in DOMAIN canvas[row] |-> IF col % 2 = 0 THEN ink ELSE paper]]
          [] OTHER -> canvas

Esc == "\\u001b"

UpperHalfBlock == "\\u2580"

LowerHalfBlock == "\\u2584"

FullBlock == "\\u2588"

Digits == <<"0", "1", "2", "3", "4", "5", "6", "7", "8", "9">>

RECURSIVE ToDecimal(_)
\* The decimal digits of a non-negative integer, as a template literal writes it.
ToDecimal(n) ==
    IF n < 10 THEN <<Digits[n + 1]>>
    ELSE ToDecimal(n \div 10) \o <<Digits[(n % 10) + 1]>>

\* The escapes with the two halves exchanged.
getAnsiTruecolorSwapped(upper, lower) ==
    <<Esc, "[", "3", "8", ";", "2", ";">> \o ToDecimal(lower.red) \o <<";">>
        \o ToDecimal(lower.green) \o <<";">> \o ToDecimal(lower.blue) \o <<"m">>
    \o <<Esc, "[", "4", "8", ";", "2", ";">> \o ToDecimal(upper.red) \o <<";">>
        \o ToDecimal(upper.green) \o <<";">> \o ToDecimal(upper.blue) \o <<"m">>

getAnsiTruecolor(upper, lower) ==
    <<Esc, "[", "3", "8", ";", "2", ";">> \o ToDecimal(upper.red) \o <<";">>
        \o ToDecimal(upper.green) \o <<";">> \o ToDecimal(upper.blue) \o <<"m">>
    \o <<Esc, "[", "4", "8", ";", "2", ";">> \o ToDecimal(lower.red) \o <<";">>
        \o ToDecimal(lower.green) \o <<";">> \o ToDecimal(lower.blue) \o <<"m">>

\* The index with every channel rounded down.
ansi256IndexFloor(color) ==
    16 + 36 * (color.red \div 51) + 6 * (color.green \div 51) + (color.blue \div 51)

\* 16 + 36 * round(red / 51) + 6 * round(green / 51) + round(blue / 51)
ansi256Index(color) ==
    16 + 36 * MathRound(color.red, 51) + 6 * MathRound(color.green, 51)
       + MathRound(color.blue, 51)

getAnsi256Color(upper, lower) ==
    <<Esc, "[", "3", "8", ";", "5", ";">> \o ToDecimal(ansi256Index(upper)) \o <<"m">>
    \o <<Esc, "[", "4", "8", ";", "5", ";">> \o ToDecimal(ansi256Index(lower)) \o <<"m">>

\* (54 * R + 183 * G + 19 * B) >> 8
luminance(color) == (54 * color.red + 183 * color.green + 19 * color.blue) \div 256

\* The glyphs with a luminance of 128 counted as bright.
getMonochromeAtLeast(upper, lower) ==
    IF luminance(upper) >= 128
    THEN (IF luminance(lower) >= 128 THEN FullBlock ELSE UpperHalfBlock)
    ELSE (IF luminance(lower) >= 128 THEN LowerHalfBlock ELSE " ")

\* The glyphs with the threshold test turned round.
getMonochromeInverse(upper, lower) ==
    IF luminance(upper) > 128
    THEN (IF luminance(lower) > 128 THEN " " ELSE LowerHalfBlock)
    ELSE (IF luminance(lower) > 128 THEN UpperHalfBlock ELSE FullBlock)

getMonochrome(upper, lower) ==
    IF luminance(upper) > 128
    THEN (IF luminance(lower) > 128 THEN FullBlock ELSE UpperHalfBlock)
    ELSE (IF luminance(lower) > 128 THEN LowerHalfBlock ELSE " ")

RECURSIVE Join(_, _)
\* pieces.join(sep) for a sequence of character sequences
Join(pieces, sep) ==
    IF Len(pieces) = 0 THEN <<>>
    ELSE IF Len(pieces) = 1 THEN pieces[1]
    ELSE pieces[1] \o sep \o Join(Tail(pieces), sep)

\* The coloured cells with the reset escape written once, after the last line.
encodeCanvasOneReset(canvas, w, h, depth) ==
    Join([k \in 1..(h \div 2) |->
            Join([c \in 1..w |->
                    (IF depth = "monochrome"
                     THEN <<getMonochrome(canvas[(k - 1) * 2][c - 1],
                                          canvas[(k - 1) * 2 + 1][c - 1])>>
                     ELSE IF depth = "truecolor"
                     THEN getAnsiTruecolor(canvas[(k - 1) * 2][c - 1],
                                           canvas[(k - 1) * 2 + 1][c - 1]) \o <<UpperHalfBlock>>
                     ELSE getAnsi256Color(canvas[(k - 1) * 2][c - 1],
                                          canvas[(k - 1) * 2 + 1][c - 1]) \o <<UpperHalfBlock>>)],
                 <<>>)],
         <<"\n">>)
    \o (IF depth = "monochrome" THEN <<>> ELSE <<Esc, "[", "0", "m">>)

\* One line of glyphs for every pixel row.
encodeCanvasRows(canvas, w, h, depth) ==
    Join([k \in 1..h |->
            Join([c \in 1..w |-> <<getMonochrome(canvas[k - 1][c - 1], canvas[k - 1][c - 1])>>],
                 <<>>)],
         <<"\n">>)

\* The string renderAnsi returns for a composited canvas.
encodeCanvas(canvas, w, h, depth) ==
    IF depth = "monochrome"
    THEN Join([k \in 1..(h \div 2) |->
                  Join([c \in 1..w |->
                          <<getMonochrome(canvas[(k - 1) * 2][c - 1],
                                          canvas[(k - 1) * 2 + 1][c - 1])>>], <<>>)],
              <<"\n">>)
    ELSE Join([k \in 1..(h \div 2) |->
                  Join([c \in 1..w |->
                          (IF depth = "truecolor"
                           THEN getAnsiTruecolor(canvas[(k - 1) * 2][c - 1],
                                                 canvas[(k - 1) * 2 + 1][c - 1])
                           ELSE getAnsi256Color(canvas[(k - 1) * 2][c - 1],
                                                canvas[(k - 1) * 2 + 1][c - 1]))
                          \o <<UpperHalfBlock>>], <<>>)
                  \o <<Esc, "[", "0", "m">>],
              <<"\n">>)

----------------------------------------------------------------------------
(* The arguments the caller passes *)

MaxWidth == 3

MaxHeight == 4

MaxShapes == 2

Rgb(r, g, b) == [t |-> "object", red |-> JsInt(r), green |-> JsInt(g), blue |-> JsInt(b)]

validOrange == Rgb(255, 165, 0)

validBlue == Rgb(0, 0, 255)

Background(ink, paper, pattern) ==
    [t |-> "object", ink |-> ink, paper |-> paper, pattern |-> Str(pattern)]

\* strokeWidth is given in quarters of a pixel.
Shape(kind, size, px, py, ink, paper, pattern, strokeWidth, strokePosition, strokeColor) ==
    [t |-> "object", kind |-> Str(kind), size |-> JsInt(size),
     position |-> [t |-> "object", x |-> JsInt(px), y |-> JsInt(py)],
     ink |-> ink, paper |-> paper, pattern |-> Str(pattern),
     strokeWidth |-> Num(strokeWidth), strokePosition |-> Str(strokePosition),
     strokeColor |-> strokeColor]

Args(w, h, background, shapes, depth) ==
    [canvasWidth |-> w, canvasHeight |-> h, background |-> background,
     shapes |-> shapes, colorDepth |-> depth]

ValidBackgrounds ==
    { Background(validOrange, validBlue, "breton"),
      Background(Rgb(40, 60, 90), Rgb(20, 30, 70), "pinstripe") }

DarkBackgrounds ==
    { Background(Rgb(40, 60, 90), Rgb(20, 30, 70), pattern) : pattern \in Patterns }

ShapePool ==
    { Shape("circle", 4, 0, 0, Rgb(255, 50, 50), Rgb(255, 200, 200), "pinstripe",
            1, "inside", Rgb(255, 255, 80)),
      Shape("triangle", 3, 2, -1, Rgb(50, 50, 255), Rgb(200, 200, 0), "breton",
            4, "outside", Rgb(200, 255, 200)),
      Shape("square", 3, -3, -2, Rgb(50, 10, 50), Rgb(200, 255, 200), "pinstripe",
            10, "center", Rgb(0, 0, 0)),
      Shape("circle", 1, -3, -3, Rgb(255, 255, 255), Rgb(0, 0, 0), "breton",
            0, "center", Rgb(9, 9, 9)) }

\* The sequences over S of length at most n.
RECURSIVE SeqsUpTo(_, _)
SeqsUpTo(S, n) ==
    IF n = 0 THEN {<<>>}
    ELSE LET shorter == SeqsUpTo(S, n - 1)
         IN  shorter \cup {Append(q, e) : q \in shorter, e \in S}

ColorDepths == {Str("truecolor"), Str("256"), Str("monochrome")}

EvenHeights == {h \in 2..MaxHeight : h % 2 = 0}

\* Scenes that pass validation: every small canvas, background and shape list, with
\* the depth left out or 256, and with every depth for the lists of at most one shape.
SceneArgs ==
    { Args(JsInt(w), JsInt(h), background, Arr(list), depth) :
        w \in 1..MaxWidth, h \in EvenHeights, background \in ValidBackgrounds,
        list \in SeqsUpTo(ShapePool, MaxShapes),
        depth \in {Str("256"), Undefined} }
    \cup { Args(JsInt(w), JsInt(h), background, Arr(list), depth) :
             w \in 1..MaxWidth, h \in EvenHeights, background \in ValidBackgrounds,
             list \in SeqsUpTo(ShapePool, 1), depth \in ColorDepths }

\* Wider canvases without shapes, among them the heights 5 and 10 at width 10.
EmptyArgs ==
    { Args(JsInt(10), JsInt(h), background, Arr(<<>>), depth) :
        h \in {5, 10}, background \in DarkBackgrounds \cup ValidBackgrounds,
        depth \in ColorDepths }

\* A circle of size 50 at the world origin on a square canvas.
BigCircles ==
    { Shape("circle", 50, 0, 0, validOrange, validBlue, pattern, strokeWidth,
            strokePosition, Rgb(1, 2, 3)) :
        pattern \in Patterns, strokeWidth \in {0, 4, 40}, strokePosition \in StrokePositions }

BigCircleArgs ==
    { Args(JsInt(n), JsInt(n), background, Arr(<<circle>>), Str("truecolor")) :
        n \in {2, 4}, background \in DarkBackgrounds, circle \in BigCircles }

\* A small shape of every kind near a corner of a 4 x 4 canvas, so that its box
\* leaves pixels out.
CornerShapes ==
    { Shape(kind, 1, p, p, Rgb(255, 255, 255), Rgb(128, 128, 128), "pinstripe",
            stroke[1], stroke[2], Rgb(255, 0, 0)) :
        kind \in Kinds, p \in {-3, 3},
        stroke \in { <<0, "center">>, <<4, "outside">>, <<8, "center">>, <<6, "inside">> } }

CornerArgs ==
    { Args(JsInt(4), JsInt(4), Background(validOrange, validBlue, "breton"), Arr(<<shape>>),
           Undefined) : shape \in CornerShapes }

(* Arguments that fail validation *)

goodBackground == Background(validOrange, validBlue, "breton")

goodShape == Shape("circle", 2, 0, 0, validOrange, validBlue, "breton", 4, "center", validBlue)

\* Values that are not a colour record.
BadColors ==
    { Undefined, Null, Arr(<<>>), JsInt(123), Str("invalid"), Bool(TRUE),
      [t |-> "object", red |-> JsInt(1), green |-> JsInt(2)],
      [t |-> "object", red |-> JsInt(256), green |-> JsInt(0), blue |-> JsInt(0)],
      [t |-> "object", red |-> JsInt(0), green |-> Num(2), blue |-> JsInt(0)],
      [t |-> "object", red |-> JsInt(0), green |-> JsInt(0), blue |-> Str("255")],
      [t |-> "object", red |-> NaN, green |-> JsInt(0), blue |-> JsInt(0)] }

\* Values that are not a number of the wanted kind.
BadNumbers == { Undefined, Null, Bool(TRUE), Str("large"), NaN, Arr(<<>>) }

BadStrings == { Undefined, Null, JsInt(123), Arr(<<>>), Str("invalid") }

BadRecords == { Undefined, Null, Arr(<<>>), JsInt(5), Str("record"), Bool(FALSE) }

BadBackgrounds ==
    BadRecords
    \cup { [goodBackground EXCEPT !.ink = c] : c \in BadColors }
    \cup { [goodBackground EXCEPT !.paper = c] : c \in BadColors }
    \cup { [goodBackground EXCEPT !.pattern = v] : v \in BadStrings }
    \cup { [t |-> "object", ink |-> validBlue],
           [t |-> "object", ink |-> validBlue, paper |-> validOrange] }

BadShapes ==
    BadRecords
    \cup { [goodShape EXCEPT !.kind = v] : v \in BadStrings \cup {Str("hexagon")} }
    \cup { [goodShape EXCEPT !.size = v] :
              v \in BadNumbers \cup {JsInt(0), JsInt(101), Num(6)} }
    \cup { [goodShape EXCEPT !.position = v] : v \in BadRecords }
    \cup { [goodShape EXCEPT !.position.x = v] :
              v \in BadNumbers \cup {JsInt(-1001), JsInt(1001), Num(2)} }
    \cup { [goodShape EXCEPT !.position.y = v] :
              v \in BadNumbers \cup {JsInt(-1001), JsInt(1001), Num(2)} }
    \cup { [goodShape EXCEPT !.ink = c] : c \in BadColors }
    \cup { [goodShape EXCEPT !.paper = c] : c \in BadColors }
    \cup { [goodShape EXCEPT !.pattern = v] : v \in BadStrings }
    \cup { [goodShape EXCEPT !.strokeWidth = v] :
              v \in BadNumbers \cup {Num(-1), Num(41), JsInt(11)} }
    \cup { [goodShape EXCEPT !.strokePosition = v] : v \in BadStrings }
    \cup { [goodShape EXCEPT !.strokeColor = c] : c \in BadColors }
    \cup { [t |-> "object", kind |-> Str("circle"), size |-> JsInt(10),
            ink |-> validOrange, paper |-> validBlue, pattern |-> Str("breton")],
           [t |-> "object", size |-> JsInt(10), ink |-> validOrange,
            paper |-> validBlue, pattern |-> Str("breton")] }

\* The shape record of the tests: no position and no stroke properties.
validShape ==
    [t |-> "object", kind |-> Str("circle"), size |-> JsInt(10),
     ink |-> validOrange, paper |-> validBlue, pattern |-> Str("breton")]

\* The shape lists the tests expect a colour or pattern error for.
TestShapeLists ==
    { Arr(<<[validShape EXCEPT !.ink = c]>>) : c \in {JsInt(123), Str("invalid")} }
    \cup { Arr(<<[validShape EXCEPT !.paper = c]>>) : c \in {Bool(TRUE), Str("invalid")} }
    \cup { Arr(<<validShape, [validShape EXCEPT !.pattern = Str("invalid")]>>) }

TestShapeArgs ==
    { Args(JsInt(10), JsInt(10), goodBackground, list, Undefined) : list \in TestShapeLists }

BadWidths == BadNumbers \cup { JsInt(0), JsInt(121), Num(41), JsInt(-1) }

BadHeights == BadNumbers \cup { JsInt(0), JsInt(1), JsInt(3), JsInt(5), JsInt(65), JsInt(66), Num(9) }

BadDepths == { Null, JsInt(123), Bool(TRUE), Arr(<<>>), Str("invalid"), Str("full") }

\* Calls with one invalid argument, and calls with two.
InvalidArgs ==
    { Args(w, JsInt(2), goodBackground, Arr(<<>>), Str("truecolor")) : w \in BadWidths }
    \cup { Args(JsInt(2), h, goodBackground, Arr(<<>>), Str("truecolor")) : h \in BadHeights }
    \cup { Args(JsInt(2), JsInt(2), b, Arr(<<>>), Str("truecolor")) : b \in BadBackgrounds }
    \cup { Args(JsInt(2), JsInt(2), goodBackground, v, Str("truecolor")) :
              v \in {Undefined, Null, [t |-> "object"], Str("shapes"), JsInt(1)} }
    \cup { Args(JsInt(2), JsInt(2), goodBackground, Arr(<<shape>>), Str("truecolor")) :
              shape \in BadShapes }
    \cup { Args(JsInt(2), JsInt(2), goodBackground, Arr(<<goodShape, shape>>), Str("truecolor")) :
              shape \in BadShapes }
    \cup { Args(JsInt(2), JsInt(2), goodBackground, Arr(<<goodShape>>), d) : d \in BadDepths }
    \cup { Args(w, h, goodBackground, Arr(<<>>), Str("truecolor")) :
              w \in {Undefined, JsInt(0)}, h \in {Undefined, JsInt(3), JsInt(66)} }
    \cup { Args(JsInt(2), h, b, Arr(<<>>), d) :
              h \in {JsInt(3), JsInt(2)}, b \in {Null, [goodBackground EXCEPT !.ink = Null]},
              d \in {Str("invalid"), Str("256")} }
    \cup { Args(JsInt(2), JsInt(2), goodBackground, Arr(<<s1, s2>>), d) :
              s1 \in {[goodShape EXCEPT !.pattern = Str("invalid")],
                      [goodShape EXCEPT !.strokeColor = Null]},
              s2 \in {[goodShape EXCEPT !.kind = Str("hexagon")], Null},
              d \in {Str("invalid"), Str("256")} }

\* A square whose fill edge and outside stroke both cover the four pixels of a 2 x 2
\* canvas in part.
SoftSquare ==
    Shape("square", 4, 0, 0, validOrange, validBlue, "breton", 4, "outside", Rgb(255, 255, 255))

SoftSquareArgs == { Args(JsInt(2), JsInt(2), goodBackground, Arr(<<SoftSquare>>), Undefined) }

\* A square without a stroke whose edge passes through pixel centres of a 5 x 6
\* canvas.
EdgeSquare ==
    Shape("square", 2, 0, 0, validOrange, validBlue, "pinstripe", 0, "center", Rgb(255, 255, 255))

EdgeSquareArgs == { Args(JsInt(5), JsInt(6), goodBackground, Arr(<<EdgeSquare>>), Str("256")) }

CallArgs ==
    SceneArgs \cup EmptyArgs \cup BigCircleArgs \cup CornerArgs \cup InvalidArgs \cup TestShapeArgs
    \cup SoftSquareArgs \cup EdgeSquareArgs

----------------------------------------------------------------------------
(* The state machine of one invocation after another *)

NoCanvas == <<>>

NoResult == <<"(none)">>

\* between: whether a call with other arguments was made since.
NoMemo == [args |-> Args(Undefined, Undefined, Undefined, Undefined, Undefined),
           result |-> NoResult, between |-> FALSE]

NoProbe == [fn |-> "none"]

\* The validated canvas size and shape list of the invocation.
W == IntOf(args.canvasWidth)

H == IntOf(args.canvasHeight)

shapes == args.shapes.items

Init ==
    /\ pc = "idle"
    /\ args = Args(Undefined, Undefined, Undefined, Undefined, Undefined)
    /\ colorDepth = Undefined
    /\ err = NoError
    /\ pixelCanvas = NoCanvas
    /\ x = 0
    /\ y = 0
    /\ si = 0
    /\ loc = NoLocals
    /\ result = NoResult
    /\ memo = NoMemo
    /\ probe = NoProbe

\* renderAnsi is entered with the arguments a and validates them (lines 37-66).
Enter(a) ==
    LET depth == IF a.colorDepth.t = "undefined" THEN DefaultColorDepth ELSE a.colorDepth
        e     == validateArgs(a.canvasWidth, a.canvasHeight, a.background, a.shapes, depth)
    IN  /\ pc = "idle"
        /\ args' = a
        /\ colorDepth' = depth
        /\ err' = e
        /\ pc' = IF e = NoError THEN "validated" ELSE "threw"
        /\ pixelCanvas' = NoCanvas
        /\ result' = NoResult
        /\ x' = 0
        /\ y' = 0
        /\ si' = 0
        /\ loc' = NoLocals
        /\ memo' = IF memo.result # NoResult /\ a # memo.args
                   THEN [memo EXCEPT !.between = TRUE]
                   ELSE memo
        /\ UNCHANGED probe

Call == \E a \in CallArgs : Enter(a)

\* The black canvas (lines 69-71).
newPixelCanvas(w, h) == [row \in 0..(h - 1) |-> [col \in 0..(w - 1) |-> Black]]

CreateCanvas ==
    /\ pc = "validated"
    /\ pixelCanvas' = newPixelCanvas(W, H)
    /\ pc' = "canvas"
    /\ UNCHANGED <<args, colorDepth, err, x, y, si, loc, result, memo, probe>>

\* The background is drawn and the pixel loop is entered (lines 75-82, 155-156).
DrawBackground ==
    /\ pc = "canvas"
    /\ pixelCanvas' = drawBackground(pixelCanvas, args.background)
    /\ pc' = "loop"
    /\ x' = 0
    /\ y' = 0
    /\ si' = 0
    /\ UNCHANGED <<args, colorDepth, err, loc, result, memo, probe>>

\* With no shapes the pixel loop leaves the canvas as it is (lines 155-167).
NoShapes ==
    /\ pc = "loop"
    /\ Len(shapes) = 0
    /\ pc' = "encode"
    /\ x' = 0
    /\ y' = H
    /\ UNCHANGED <<args, colorDepth, err, pixelCanvas, si, loc, result, memo, probe>>

\* One iteration of ShapeLoop, and the step of the counters to the next one
\* (lines 155-322).
ShapeLoop ==
    /\ pc = "loop"
    /\ Len(shapes) > 0
    /\ LET it == shapeLoop(ENABLE_BOX_CULLING, shapes, W, H, x, y, si, pixelCanvas[y][x])
           lastShape == si + 1 = Len(shapes)
           lastCol   == x + 1 = W
           lastRow   == y + 1 = H
       IN  IF it.unimplemented
           THEN /\ err' = Throw("RangeError", "shapes", si, "kind", "is not implemented",
                                shapes[si + 1].kind.s)
                /\ pc' = "threw"
                /\ loc' = it.loc
                /\ UNCHANGED <<pixelCanvas, x, y, si>>
           ELSE /\ pixelCanvas' = [pixelCanvas EXCEPT ![y][x] = it.cell]
                /\ loc' = it.loc
                /\ si' = IF lastShape THEN 0 ELSE si + 1
                /\ x' = IF ~lastShape THEN x ELSE IF lastCol THEN 0 ELSE x + 1
                /\ y' = IF lastShape /\ lastCol THEN y + 1 ELSE y
                /\ pc' = IF lastShape /\ lastCol /\ lastRow THEN "encode" ELSE "loop"
                /\ err' = err
    /\ UNCHANGED <<args, colorDepth, result, memo, probe>>

\* The character canvas is built and joined into the returned string (lines 328-355).
Encode ==
    /\ pc = "encode"
    /\ result' = encodeCanvas(pixelCanvas, W, H, colorDepth.s)
    /\ pc' = "done"
    /\ UNCHANGED <<args, colorDepth, err, pixelCanvas, x, y, si, loc, memo, probe>>

\* The invocation is over: its frame is dropped.  colorDepth keeps its last binding
\* until the next call binds it again.
Return ==
    /\ pc \in {"done", "threw"}
    /\ pc' = "idle"
    /\ args' = Args(Undefined, Undefined, Undefined, Undefined, Undefined)
    /\ err' = NoError
    /\ pixelCanvas' = NoCanvas
    /\ x' = 0
    /\ y' = 0
    /\ si' = 0
    /\ loc' = NoLocals
    /\ result' = NoResult
    /\ UNCHANGED <<colorDepth, memo, probe>>

Next ==
    \/ Call
    \/ CreateCanvas
    \/ DrawBackground
    \/ NoShapes
    \/ ShapeLoop
    \/ Encode
    \/ Return

Spec == Init /\ [][Next]_vars

----------------------------------------------------------------------------
(* The caller repeats calls and compares their results *)

RepeatArgs ==
    { Args(JsInt(w), JsInt(2), goodBackground, Arr(list), depth) :
        w \in {1, 2}, list \in {<<>>, <<goodShape>>},
        depth \in ColorDepths \cup {Undefined} }
    \cup { Args(JsInt(2), JsInt(2), goodBackground, Arr(<<>>), Str("invalid")) }

CallAgain == \E a \in RepeatArgs : Enter(a)

\* The caller keeps the arguments and the result of a completed call.
Remember ==
    /\ pc = "done"
    /\ memo = NoMemo
    /\ memo' = [args |-> args, result |-> result, between |-> FALSE]
    /\ UNCHANGED <<pc, args, colorDepth, err, pixelCanvas, x, y, si, loc, result, probe>>

NextRepeat ==
    \/ CallAgain
    \/ CreateCanvas
    \/ DrawBackground
    \/ NoShapes
    \/ ShapeLoop
    \/ Encode
    \/ Return
    \/ Remember

SpecRepeat == Init /\ [][NextRepeat]_vars

----------------------------------------------------------------------------
(* The fill alpha along a ray from the centre of a circle *)

MaxDelta == 2

ProbeCanvases == { <<2, 2>>, <<3, 4>>, <<4, 4>>, <<10, 10>> }

\* The radius of the probed circle, in world units.
ProbeSize == 3

\* Two points on the ray, pA and pB >= pA world lengths from the centre.
FillProbes ==
    { [fn |-> "fillAlpha", w |-> c[1], h |-> c[2], pA |-> p, pB |-> p + delta,
       applied |-> FALSE, dA |-> 0, dB |-> 0,
       alphaA |-> [n |-> 0, d |-> 1], alphaB |-> [n |-> 0, d |-> 1]] :
        c \in ProbeCanvases,
        p \in 0..(ProbeSize * WorldScale + 5 * WorldScale),
        delta \in 0..MaxDelta }

InitFillAlpha ==
    /\ pc = "idle"
    /\ args = Args(Undefined, Undefined, Undefined, Undefined, Undefined)
    /\ colorDepth = Undefined
    /\ err = NoError
    /\ pixelCanvas = NoCanvas
    /\ x = 0
    /\ y = 0
    /\ si = 0
    /\ loc = NoLocals
    /\ result = NoResult
    /\ memo = NoMemo
    /\ probe \in FillProbes

\* The distance and the fill alpha at the two points (lines 180-184, 213-219).
ApplyFillAlpha ==
    /\ probe.fn = "fillAlpha"
    /\ ~probe.applied
    /\ LET aa == aaRegion(probe.w, probe.h)
           dA == sdfCircle(probe.pA, 0, ProbeSize * WorldScale)
           dB == sdfCircle(probe.pB, 0, ProbeSize * WorldScale)
       IN  probe' = [probe EXCEPT !.applied = TRUE, !.dA = dA, !.dB = dB,
                                  !.alphaA = fillAlphaAt(dA, aa),
                                  !.alphaB = fillAlphaAt(dB, aa)]
    /\ UNCHANGED <<pc, args, colorDepth, err, pixelCanvas, x, y, si, loc, result, memo>>

SpecFillAlpha == InitFillAlpha /\ [][ApplyFillAlpha]_vars

----------------------------------------------------------------------------
(* Reading the returned string *)

Glyphs == {UpperHalfBlock, LowerHalfBlock, FullBlock, " "}

\* The positions of the line breaks of a string, and the break before line k.
Breaks(s) == {i \in 1..Len(s) : s[i] = "\n"}

BreakBefore(s, k) ==
    IF k = 1 THEN 0
    ELSE CHOOSE i \in Breaks(s) : Cardinality({j \in Breaks(s) : j <= i}) = k - 1

\* s.split("\n")
Lines(s) ==
    [k \in 1..(Cardinality(Breaks(s)) + 1) |->
        SubSeq(s, BreakBefore(s, k) + 1,
               IF k = Cardinality(Breaks(s)) + 1 THEN Len(s) ELSE BreakBefore(s, k + 1) - 1)]

GlyphCount(line) == Cardinality({i \in 1..Len(line) : line[i] \in Glyphs})

IsDigit(c) == \E d \in 1..10 : Digits[d] = c

DigitValue(c) == (CHOOSE d \in 1..10 : Digits[d] = c) - 1

\* Where the runs of digits of a line start, and the k-th of them.
RunStarts(line) ==
    {i \in 1..Len(line) : IsDigit(line[i]) /\ (i = 1 \/ ~IsDigit(line[i - 1]))}

RunStart(line, k) ==
    CHOOSE i \in RunStarts(line) : Cardinality({j \in RunStarts(line) : j <= i}) = k

RECURSIVE RunValue(_, _, _)
RunValue(line, i, acc) ==
    IF i > Len(line) \/ ~IsDigit(line[i]) THEN acc
    ELSE RunValue(line, i + 1, 10 * acc + DigitValue(line[i]))

\* The k-th number written in a line.
NumberAt(line, k) == RunValue(line, RunStart(line, k), 0)

\* A truecolor line writes ten numbers per cell: 38;2;R;G;B and 48;2;R;G;B.
Foreground(line, col) ==
    [red |-> NumberAt(line, 10 * col + 3), green |-> NumberAt(line, 10 * col + 4),
     blue |-> NumberAt(line, 10 * col + 5)]

Backdrop(line, col) ==
    [red |-> NumberAt(line, 10 * col + 8), green |-> NumberAt(line, 10 * col + 9),
     blue |-> NumberAt(line, 10 * col + 10)]

\* The characters of one cell for a depth, from its upper and lower pixel.
CellCode(depth, upper, lower) ==
    CASE depth = "monochrome" -> <<getMonochrome(upper, lower)>>
      [] depth = "truecolor"  -> getAnsiTruecolor(upper, lower) \o <<UpperHalfBlock>>
      [] OTHER                -> getAnsi256Color(upper, lower) \o <<UpperHalfBlock>>

\* Line k (from 1) of the output as the pixel rows 2(k-1) and 2(k-1)+1 give it.
LineOfRows(k) ==
    Join([c \in 1..W |-> CellCode(colorDepth.s, pixelCanvas[2 * (k - 1)][c - 1],
                                  pixelCanvas[2 * (k - 1) + 1][c - 1])], <<>>)
    \o (IF colorDepth.s = "monochrome" THEN <<>> ELSE <<Esc, "[", "0", "m">>)

----------------------------------------------------------------------------
(* The canvas composited with culling switched on or off *)

RECURSIVE paint(_, _, _, _, _, _, _, _)
\* The cell of pixel (col, row) after the shapes from k on are composited.
paint(culling, list, w, h, col, row, k, existing) ==
    IF k >= Len(list) THEN existing
    ELSE paint(culling, list, w, h, col, row, k + 1,
               shapeLoop(culling, list, w, h, col, row, k, existing).cell)

composite(culling, w, h, background, list) ==
    LET ground == drawBackground(newPixelCanvas(w, h), background)
    IN  [row \in 0..(h - 1) |->
            [col \in 0..(w - 1) |-> paint(culling, list, w, h, col, row, 0, ground[row][col])]]

----------------------------------------------------------------------------
(* Properties *)

\* C1: a call that returns gives exactly canvasHeight / 2 lines separated by single
\* line breaks, with no line break at the end; every line holds canvasWidth cells,
\* and the cell of line k, column x is the encoding of the pixels of rows 2k and
\* 2k + 1 in column x.
C1_OutputDimensions ==
    pc = "done" =>
        LET lines == Lines(result)
        IN  /\ Len(lines) = H \div 2
            /\ result[Len(result)] # "\n"
            /\ \A k \in 1..Len(lines) :
                  /\ GlyphCount(lines[k]) = W
                  /\ lines[k] = LineOfRows(k)

C1_Witness ==
    /\ pc = "done"
    /\ W >= 2
    /\ H >= 4
    /\ Len(shapes) > 0
    /\ Len(Lines(result)) = H \div 2
    /\ GlyphCount(Lines(result)[2]) = W

\* C2: the pixel grid and the returned string are those of a rendering without
\* bounding-box culling, and a shape skipped at a pixel by its box has fill alpha 0
\* and stroke alpha 0 there.
C2_CullingIsInvisible ==
    /\ loc.si >= 0 =>
          LET unculled == shapeLoop(FALSE, shapes, W, H, loc.x, loc.y, loc.si, loc.existing)
          IN  /\ pixelCanvas[loc.y][loc.x] = unculled.cell
              /\ loc.culled =>
                    /\ unculled.loc.fillAlpha.n = 0
                    /\ unculled.loc.strokeAlpha.n = 0
    /\ pc = "done" =>
          /\ pixelCanvas = composite(FALSE, W, H, args.background, shapes)
          /\ result = encodeCanvas(composite(FALSE, W, H, args.background, shapes),
                                   W, H, colorDepth.s)

C2_Witness ==
    /\ loc.si >= 0
    /\ loc.culled
    /\ \E k \in 0..(Len(shapes) - 1) :
          shapeLoop(TRUE, shapes, W, H, loc.x, loc.y, k, Black).loc.blended

\* Whether shape k alone is fully opaque at pixel (col, row): its combined alpha is 1.
OpaqueAt(k, col, row) ==
    LET alpha == shapeLoop(FALSE, shapes, W, H, col, row, k, Black).loc.color.alpha
    IN  alpha.n = alpha.d

\* The colour shape k alone gives pixel (col, row).
EffectiveColor(k, col, row) ==
    LET color == shapeLoop(FALSE, shapes, W, H, col, row, k, Black).loc.color
    IN  [red |-> color.red, green |-> color.green, blue |-> color.blue]

\* C3: when the shape just composited is fully opaque at the pixel and an earlier
\* shape of the list is fully opaque there too, the pixel holds the later shape's
\* colour, whatever the earlier shape and the background painted.
C3_PainterOrder ==
    (/\ loc.si >= 1
     /\ OpaqueAt(loc.si, loc.x, loc.y)
     /\ \E i \in 0..(loc.si - 1) : OpaqueAt(i, loc.x, loc.y))
    => pixelCanvas[loc.y][loc.x] = EffectiveColor(loc.si, loc.x, loc.y)

C3_Witness ==
    /\ loc.si >= 1
    /\ OpaqueAt(loc.si, loc.x, loc.y)
    /\ \E i \in 0..(loc.si - 1) :
          /\ OpaqueAt(i, loc.x, loc.y)
          /\ EffectiveColor(i, loc.x, loc.y) # EffectiveColor(loc.si, loc.x, loc.y)
          /\ loc.existing = EffectiveColor(i, loc.x, loc.y)
    /\ pixelCanvas[loc.y][loc.x] # loc.existing

\* C4: a call with the arguments of a remembered call returns the remembered
\* string, whatever calls were made before it or in between.
C4_Deterministic ==
    (pc = "done" /\ memo.args = args) => result = memo.result

C4_Witness ==
    /\ pc = "done"
    /\ memo.args = args
    /\ memo.between
    /\ args.colorDepth = Undefined
    /\ result = memo.result

\* C5: with no shapes and truecolor depth, the foreground escape of every cell
\* carries the background's colour of pixel row 2k and its background escape that of
\* row 2k + 1: ink and paper under breton, and under pinstripe ink for both in even
\* columns and paper for both in odd columns.  The 1 x 2 orange and blue canvas
\* gives foreground (255,165,0) and background (0,0,255).
C5_TruecolorBackground ==
    (pc = "done" /\ Len(shapes) = 0 /\ colorDepth = Str("truecolor")) =>
        LET lines == Lines(result)
            ink   == ColorOf(args.background.ink)
            paper == ColorOf(args.background.paper)
        IN  /\ \A k \in 1..(H \div 2) : \A col \in 0..(W - 1) :
                  /\ Foreground(lines[k], col) = pixelCanvas[2 * (k - 1)][col]
                  /\ Backdrop(lines[k], col) = pixelCanvas[2 * (k - 1) + 1][col]
                  /\ args.background.pattern.s = "breton" =>
                        /\ Foreground(lines[k], col) = ink
                        /\ Backdrop(lines[k], col) = paper
                  /\ args.background.pattern.s = "pinstripe" =>
                        /\ Foreground(lines[k], col) = (IF col % 2 = 0 THEN ink ELSE paper)
                        /\ Backdrop(lines[k], col) = (IF col % 2 = 0 THEN ink ELSE paper)
            /\ (W = 1 /\ H = 2 /\ args.background = Background(validOrange, validBlue, "breton")) =>
                  result = <<Esc, "[", "3", "8", ";", "2", ";", "2", "5", "5", ";", "1", "6", "5",
                             ";", "0", "m", Esc, "[", "4", "8", ";", "2", ";", "0", ";", "0",
                             ";", "2", "5", "5", "m", UpperHalfBlock, Esc, "[", "0", "m">>

C5_Witness ==
    /\ pc = "done"
    /\ Len(shapes) = 0
    /\ colorDepth = Str("truecolor")
    /\ args.background.pattern.s = "pinstripe"
    /\ W >= 2
    /\ H >= 4
    /\ Foreground(Lines(result)[2], 1) = ColorOf(args.background.paper)
    /\ Foreground(Lines(result)[2], 0) = ColorOf(args.background.ink)

\* Whether both colours of the background have a luminance below 128.
DarkBackground(background) ==
    /\ luminance(ColorOf(background.ink)) < 128
    /\ luminance(ColorOf(background.paper)) < 128

\* Whether the call is the canvas of width 10 and the given height with no shapes,
\* monochrome depth and a dark background.
DarkMonochrome(height) ==
    /\ args.canvasWidth = JsInt(10)
    /\ args.canvasHeight = JsInt(height)
    /\ args.shapes = Arr(<<>>)
    /\ args.colorDepth = Str("monochrome")
    /\ args.background \in DarkBackgrounds
    /\ DarkBackground(args.background)

TenSpaces == <<" ", " ", " ", " ", " ", " ", " ", " ", " ", " ">>

FiveLinesOfTenSpaces ==
    Join(<<TenSpaces, TenSpaces, TenSpaces, TenSpaces, TenSpaces>>, <<"\n">>)

BigCircleScene ==
    /\ pc = "done"
    /\ W = H
    /\ Len(shapes) = 1
    /\ shapes[1].kind.s = "circle"
    /\ shapes[1].size = JsInt(50)
    /\ shapes[1].position.x = JsInt(0)
    /\ shapes[1].position.y = JsInt(0)

\* The stroke alpha of the circle of a BigCircleScene at pixel (col, row).
BigCircleStroke(col, row) ==
    strokeAlphaAt(shapes[1],
                  sdfCircle(worldXs(col, W, H), worldYs(row, W, H), SizeOf(shapes[1])),
                  worldUnitsPerPixel(W, H), aaRegion(W, H))

\* C7 as stated: the circle of size 50 at the origin of a square canvas gives every
\* pixel the circle's ink, for every pattern, paper and stroke.
C7_BigCircleInk ==
    BigCircleScene =>
        \A row \in 0..(H - 1) : \A col \in 0..(W - 1) :
            pixelCanvas[row][col] = ColorOf(shapes[1].ink)

\* C7, amended: the circle covers every pixel, with the colour its pattern gives
\* there: ink on even rows (breton) or columns (pinstripe), paper on odd ones,
\* wherever the stroke does not reach, and the stroke colour where the stroke is
\* full.  A stroke of width 0 and a centred or outside stroke reach no pixel.
C7_BigCirclePattern ==
    BigCircleScene =>
        \A row \in 0..(H - 1) : \A col \in 0..(W - 1) :
            LET stripe == IF shapes[1].pattern.s = "breton" THEN row ELSE col
                stroke == BigCircleStroke(col, row)
            IN  /\ stroke.n = 0 =>
                      pixelCanvas[row][col] =
                          ColorOf(IF stripe % 2 = 0 THEN shapes[1].ink ELSE shapes[1].paper)
                /\ stroke.n = stroke.d => pixelCanvas[row][col] = ColorOf(shapes[1].strokeColor)
                /\ (shapes[1].strokeWidth.n = 0 \/ shapes[1].strokePosition.s # "inside") =>
                      stroke.n = 0

C7_Witness ==
    /\ BigCircleScene
    /\ shapes[1].pattern.s = "pinstripe"
    /\ shapes[1].strokePosition.s = "outside"
    /\ W >= 4
    /\ pixelCanvas[0][1] = ColorOf(shapes[1].paper)
    /\ pixelCanvas[0][0] = ColorOf(shapes[1].ink)

\* C8: the fill alpha depends on the signed distance D alone: 1 for
\* D <= -aaRegion/2, 0 for D >= aaRegion/2, (-D + aaRegion/2) / aaRegion in between;
\* so it does not grow with D, nor with the distance from the centre of a circle,
\* and it is exactly one half at D = 0.
C8_FillAlpha ==
    (probe.fn = "fillAlpha" /\ probe.applied) =>
        LET aa == aaRegion(probe.w, probe.h)
            a  == probe.alphaA
            b  == probe.alphaB
        IN  /\ 2 * probe.dA <= -aa => a.n = a.d
            /\ 2 * probe.dA >= aa => a.n = 0
            /\ (2 * probe.dA > -aa /\ 2 * probe.dA < aa) =>
                  2 * a.n * aa = a.d * (aa - 2 * probe.dA)
            /\ probe.dA = 0 => 2 * a.n = a.d
            /\ probe.dA = probe.dB => a = b
            /\ probe.dA <= probe.dB
            /\ b.n * a.d <= a.n * b.d

C8_Witness ==
    /\ probe.fn = "fillAlpha"
    /\ probe.applied
    /\ probe.dA = 0
    /\ 2 * probe.alphaA.n = probe.alphaA.d
    /\ probe.dB > 0
    /\ probe.alphaB.n > 0
    /\ probe.alphaB.n * probe.alphaA.d < probe.alphaA.n * probe.alphaB.d

\* C9: a call with an invalid argument throws, and when a call throws no pixel grid
\* was created, no pixel was written and nothing was returned.
C9_ValidationFirst ==
    /\ args \in InvalidArgs => pc = "threw"
    /\ pc = "threw" =>
          /\ err # NoError
          /\ pixelCanvas = NoCanvas
          /\ loc = NoLocals
          /\ result = NoResult

C9_Witness ==
    /\ pc = "threw"
    /\ args.shapes.t = "array"
    /\ Len(args.shapes.items) = 2
    /\ validateShape(args.shapes.items[1], 0) = NoError
    /\ err.arg = "shapes"
    /\ err.index = 1
    /\ pixelCanvas = NoCanvas
    /\ result = NoResult

\* The value the thrown error is about, and the type its check asks for.
Offending ==
    CASE err.arg = "canvasWidth"  -> args.canvasWidth
      [] err.arg = "canvasHeight" -> args.canvasHeight
      [] err.arg = "colorDepth"   -> colorDepth
      [] err.arg = "background" /\ err.field = "" -> args.background
      [] err.arg = "background" /\ err.field # "" -> Prop(args.background, err.field)
      [] err.arg = "shapes" /\ err.index < 0 -> args.shapes
      [] err.arg = "shapes" /\ err.index >= 0 /\ err.field = "" ->
            args.shapes.items[err.index + 1]
      [] err.arg = "shapes" /\ err.index >= 0 /\ err.field = "position.x" ->
            Prop(args.shapes.items[err.index + 1].position, "x")
      [] err.arg = "shapes" /\ err.index >= 0 /\ err.field = "position.y" ->
            Prop(args.shapes.items[err.index + 1].position, "y")
      [] OTHER -> Prop(args.shapes.items[err.index + 1], err.field)

WantedType ==
    CASE err.arg \in {"canvasWidth", "canvasHeight"} -> "number"
      [] err.arg = "colorDepth" -> "string"
      [] err.arg = "shapes" /\ err.index < 0 -> "array"
      [] err.field \in {"size", "position.x", "position.y", "strokeWidth"} -> "number"
      [] err.field \in {"kind", "pattern", "strokePosition"} -> "string"
      [] OTHER -> "record"

\* Whether a value is not of the wanted type at all.
WrongType(v, wanted) ==
    CASE wanted = "array"  -> ~IsArray(v)
      [] wanted = "record" -> Typeof(v) # "object" \/ v.t = "null" \/ IsArray(v)
      [] OTHER             -> Typeof(v) # wanted

\* C10 as stated: a thrown error is a TypeError when the value it is about has the
\* wrong type (a record field that is null, an array or a primitive included), and
\* a RangeError only when the value has the right type and lies outside its domain.
C10_TypeErrorForWrongType ==
    pc = "threw" =>
        (err.name = "TypeError" <=> WrongType(Offending, WantedType))

----------------------------------------------------------------------------
(* The argument checks applied to canvas sizes *)

\* Numbers around and inside the two ranges, fractions and NaN among them.
SizeWidths == {JsInt(i) : i \in (-1)..122} \cup {Num(2), Num(41), Num(481), NaN}

SizeHeights == {JsInt(i) : i \in (-1)..67} \cup {Num(9), Num(10), Num(257), NaN}

SizeProbes ==
    { [fn |-> "canvasSize", width |-> w, height |-> h, applied |-> FALSE, err |-> NoError] :
        w \in SizeWidths, h \in SizeHeights }

\* The state before a call, with a function about to be applied to the inputs in
\* probes.
InitProbe(probes) ==
    /\ pc = "idle"
    /\ args = Args(Undefined, Undefined, Undefined, Undefined, Undefined)
    /\ colorDepth = Undefined
    /\ err = NoError
    /\ pixelCanvas = NoCanvas
    /\ x = 0
    /\ y = 0
    /\ si = 0
    /\ loc = NoLocals
    /\ result = NoResult
    /\ memo = NoMemo
    /\ probe \in probes

InitCanvasSize == InitProbe(SizeProbes)

\* The argument checks of renderAnsi on a canvas size, the other arguments being
\* valid (lines 46-66).
ApplyCanvasSize ==
    /\ probe.fn = "canvasSize"
    /\ ~probe.applied
    /\ probe' = [probe EXCEPT !.applied = TRUE,
                              !.err = validateArgs(probe.width, probe.height, goodBackground,
                                                   Arr(<<goodShape>>), DefaultColorDepth)]
    /\ UNCHANGED <<pc, args, colorDepth, err, pixelCanvas, x, y, si, loc, result, memo>>

SpecCanvasSize == InitCanvasSize /\ [][ApplyCanvasSize]_vars

\* Whether a number is an integer from min to max.
IntegerWithin(v, min, max) ==
    v.t = "number" /\ v.n % NumDen = 0 /\ v.n \div NumDen >= min /\ v.n \div NumDen <= max

AlteredField(shape) ==
    IF shape.ink # validShape.ink THEN "ink"
    ELSE IF shape.paper # validShape.paper THEN "paper"
    ELSE "pattern"

\* C12: a shape record with only kind, size, ink, paper and pattern passes the
\* checks on everything it does not supply: when the last record of such a list
\* has an invalid ink, paper or pattern, the error raised is the RangeError for
\* that field of that record.
C12_BareShapeErrors ==
    (pc = "threw" /\ args \in TestShapeArgs) =>
        LET last == Len(args.shapes.items)
        IN  /\ err.name = "RangeError"
            /\ err.arg = "shapes"
            /\ err.index = last - 1
            /\ err.field = AlteredField(args.shapes.items[last])

\* The place of an argument in the order of the checks.
ArgRank(arg) ==
    CASE arg = "canvasWidth"  -> 1
      [] arg = "canvasHeight" -> 2
      [] arg = "background"   -> 3
      [] arg = "shapes"       -> 4
      [] arg = "colorDepth"   -> 5

\* The place of a field of a background or of a shape; the record itself is first.
FieldRank(field) ==
    CASE field = ""               -> 0
      [] field = "kind"           -> 1
      [] field = "size"           -> 2
      [] field = "position"       -> 3
      [] field = "position.x"     -> 4
      [] field = "position.y"     -> 5
      [] field = "ink"            -> 6
      [] field = "paper"          -> 7
      [] field = "pattern"        -> 8
      [] field = "strokeWidth"    -> 9
      [] field = "strokePosition" -> 10
      [] field = "strokeColor"    -> 11

\* The place of the requirement on a canvas size: type, range, parity.
CauseRank(arg, what) ==
    IF arg \notin {"canvasWidth", "canvasHeight"} THEN 0
    ELSE IF what = "not 'number'" THEN 0
    ELSE IF what = "must be an even number" THEN 2
    ELSE 1

Rank(arg, index, field, cause) ==
    ArgRank(arg) * 100000 + (index + 1) * 1000 + FieldRank(field) * 10 + cause

\* The fields of a shape that do not meet their requirement, each judged alone.
ShapeViolations(shape) ==
    LET position == Prop(shape, "position")
        kind     == Prop(shape, "kind")
        width    == Prop(shape, "strokeWidth")
        where    == Prop(shape, "strokePosition")
    IN  {f \in {""} : shape.t # "object"}
        \cup {f \in {"kind"} : ~(kind.t = "string" /\ kind.s \in Kinds)}
        \cup {f \in {"size"} : ~IntegerWithin(Prop(shape, "size"), 1, 100)}
        \cup {f \in {"position"} : position.t # "object"}
        \cup {f \in {"position.x"} : ~IntegerWithin(Prop(position, "x"), -1000, 1000)}
        \cup {f \in {"position.y"} : ~IntegerWithin(Prop(position, "y"), -1000, 1000)}
        \cup {f \in {"ink"} : ~isValidColor(Prop(shape, "ink"))}
        \cup {f \in {"paper"} : ~isValidColor(Prop(shape, "paper"))}
        \cup {f \in {"pattern"} : ~isValidPattern(Prop(shape, "pattern"))}
        \cup {f \in {"strokeWidth"} :
                 ~(width.t = "number" /\ width.n >= 0 /\ width.n <= 10 * NumDen)}
        \cup {f \in {"strokePosition"} : ~(where.t = "string" /\ where.s \in StrokePositions)}
        \cup {f \in {"strokeColor"} : ~isValidColor(Prop(shape, "strokeColor"))}

\* The ranks of all the requirements the arguments of a call do not meet, depth
\* being the colour depth after its default.
Violations(a, depth) ==
    LET h == a.canvasHeight
        b == a.background
    IN  {Rank("canvasWidth", -1, "", 0) : k \in {n \in {1} : Typeof(a.canvasWidth) # "number"}}
        \cup {Rank("canvasWidth", -1, "", 1) : k \in {n \in {1} : ~IntegerWithin(a.canvasWidth, 1, 120)}}
        \cup {Rank("canvasHeight", -1, "", 0) : k \in {n \in {1} : Typeof(h) # "number"}}
        \cup {Rank("canvasHeight", -1, "", 1) : k \in {n \in {1} : ~IntegerWithin(h, 2, 64)}}
        \cup {Rank("canvasHeight", -1, "", 2) :
                 k \in {n \in {1} : ~(IsInteger(h) /\ IntOf(h) % 2 = 0)}}
        \cup {Rank("background", -1, "", 0) : k \in {n \in {1} : b.t # "object"}}
        \cup {Rank("background", -1, f, 0) :
                 f \in {g \in {"ink", "paper"} : ~isValidColor(Prop(b, g))}}
        \cup {Rank("background", -1, "pattern", 0) :
                 k \in {n \in {1} : ~isValidPattern(Prop(b, "pattern"))}}
        \cup {Rank("shapes", -1, "", 0) : k \in {n \in {1} : a.shapes.t # "array"}}
        \cup (IF a.shapes.t # "array" THEN {}
              ELSE UNION { {Rank("shapes", i - 1, f, 0) : f \in ShapeViolations(a.shapes.items[i])} :
                             i \in 1..Len(a.shapes.items) })
        \cup {Rank("colorDepth", -1, "", 0) :
                 k \in {n \in {1} : ~(depth.t = "string" /\ depth.s \in {"truecolor", "256", "monochrome"})}}

\* The arguments among the five that have a violation.
ViolatedArgs(a, depth) == {r \div 100000 : r \in Violations(a, depth)}

\* C13: the error a call raises is the one for the first requirement not met, in the
\* order canvasWidth, canvasHeight (type, range, parity), background (record, ink,
\* paper, pattern), shapes (the array, then each shape by index, its fields in the
\* order kind, size, position, ink, paper, pattern, stroke properties), colorDepth.
C13_FirstViolation ==
    (pc = "threw") =>
        /\ Violations(args, colorDepth) # {}
        /\ \A r \in Violations(args, colorDepth) :
              Rank(err.arg, err.index, err.field, CauseRank(err.arg, err.what)) <= r
        /\ Rank(err.arg, err.index, err.field, CauseRank(err.arg, err.what))
              \in Violations(args, colorDepth)

C13_Witness ==
    /\ pc = "threw"
    /\ ViolatedArgs(args, colorDepth) = {2, 3, 5}
    /\ err.arg = "canvasHeight"
    /\ err.what = "must be an even number"

----------------------------------------------------------------------------
(* The encoders of one cell applied to pairs of colours *)

\* Channel values at, just below and just above the steps of the 256-colour cube.
ChannelSamples == {0, 25, 26, 51, 76, 77, 102, 127, 128, 153, 178, 179, 204, 229, 230, 255}

\* A colour as the pixel canvas holds it.
Pixel(r, g, b) == [red |-> r, green |-> g, blue |-> b]

Greys == {Pixel(c, c, c) : c \in 0..255}

UpperColors ==
    {Pixel(r, g, b) :
        r \in ChannelSamples, g \in ChannelSamples, b \in ChannelSamples}
    \cup Greys
    \cup {Pixel(0, 180, 0), Pixel(0, 181, 0)}

LowerColors ==
    {Pixel(0, 0, 0), Pixel(128, 128, 128), Pixel(129, 129, 129), Pixel(255, 255, 255),
     Pixel(25, 26, 255), Pixel(204, 153, 77), Pixel(0, 180, 0), Pixel(0, 181, 0)}

CellProbes ==
    { [fn |-> "cell", upper |-> u, lower |-> l, applied |-> FALSE,
       code256 |-> <<>>, glyph |-> ""] : u \in UpperColors, l \in LowerColors }

InitCell == InitProbe(CellProbes)

\* getAnsi256Color and getMonochrome applied to the two pixels of a cell.
ApplyCell ==
    /\ probe.fn = "cell"
    /\ ~probe.applied
    /\ probe' = [probe EXCEPT !.applied = TRUE,
                              !.code256 = getAnsi256Color(probe.upper, probe.lower),
                              !.glyph = getMonochrome(probe.upper, probe.lower)]
    /\ UNCHANGED <<pc, args, colorDepth, err, pixelCanvas, x, y, si, loc, result, memo>>

SpecCell == InitCell /\ [][ApplyCell]_vars

\* The multiple of 51 nearest to a channel value, as a count of steps: no channel
\* value is halfway between two.
Level(c) == CHOOSE k \in 0..10 : 2 * Abs(c - 51 * k) < 51

Levels(color) == <<Level(color.red), Level(color.green), Level(color.blue)>>

\* C15: the index written for a colour in 256-colour mode is 16 + 36 R + 6 G + B,
\* with R, G, B the channels' nearest steps of 51, each from 0 to 5 (the values 0,
\* 51, ..., 255 being the steps 0 to 5 themselves); it lies in 16..231, and two
\* colours get the same index exactly when their three steps are equal.
C15_Ansi256Index ==
    (probe.fn = "cell" /\ probe.applied) =>
        LET upperIndex == NumberAt(probe.code256, 3)
            lowerIndex == NumberAt(probe.code256, 6)
            up         == Levels(probe.upper)
            low        == Levels(probe.lower)
        IN  /\ upperIndex = 16 + 36 * up[1] + 6 * up[2] + up[3]
            /\ lowerIndex = 16 + 36 * low[1] + 6 * low[2] + low[3]
            /\ \A i \in 1..3 : up[i] \in 0..5
            /\ \A k \in 0..5 : probe.upper.red = 51 * k => up[1] = k
            /\ upperIndex \in 16..231
            /\ (upperIndex = lowerIndex) <=> (up = low)

C15_Witness ==
    /\ probe.fn = "cell"
    /\ probe.applied
    /\ probe.upper = Pixel(0, 51, 230)
    /\ probe.lower = Pixel(25, 26, 255)
    /\ NumberAt(probe.code256, 3) = 27
    /\ NumberAt(probe.code256, 6) = 27

\* Whether (54 R + 183 G + 19 B) / 256, rounded down, is more than 128.
Bright(color) == 54 * color.red + 183 * color.green + 19 * color.blue >= 129 * 256

\* C16: the luminance (54 R + 183 G + 19 B) >> 8 lies in 0..255 and is c for the
\* grey (c, c, c); a pixel is bright when its luminance is more than 128, and the
\* glyph of a cell is the full block for two bright pixels, the upper half block for
\* a bright upper pixel alone, the lower half block for a bright lower pixel alone
\* and a space for none.
C16_MonochromeGlyph ==
    (probe.fn = "cell" /\ probe.applied) =>
        /\ luminance(probe.upper) \in 0..255
        /\ 256 * luminance(probe.upper)
              <= 54 * probe.upper.red + 183 * probe.upper.green + 19 * probe.upper.blue
        /\ 54 * probe.upper.red + 183 * probe.upper.green + 19 * probe.upper.blue
              < 256 * (luminance(probe.upper) + 1)
        /\ probe.upper \in Greys => luminance(probe.upper) = probe.upper.red
        /\ probe.upper \in Greys => (Bright(probe.upper) <=> probe.upper.red > 128)
        /\ probe.glyph = (CASE Bright(probe.upper) /\ Bright(probe.lower)   -> FullBlock
                            [] Bright(probe.upper) /\ ~Bright(probe.lower)  -> UpperHalfBlock
                            [] ~Bright(probe.upper) /\ Bright(probe.lower)  -> LowerHalfBlock
                            [] OTHER                                        -> " ")

C16_Witness ==
    /\ probe.fn = "cell"
    /\ probe.applied
    /\ probe.upper = Pixel(128, 128, 128)
    /\ probe.lower = Pixel(129, 129, 129)
    /\ probe.glyph = LowerHalfBlock

\* The k-th position, in ascending order, of a set of positions.
NthOf(positions, k) ==
    CHOOSE i \in positions : Cardinality({j \in positions : j <= i}) = k

\* Whether the characters of a line from position i on begin with those of word.
StartsWith(line, i, word) ==
    /\ i + Len(word) - 1 <= Len(line)
    /\ SubSeq(line, i, i + Len(word) - 1) = word

ResetCode == <<Esc, "[", "0", "m">>

\* A line of a coloured output: per cell a foreground escape for the upper pixel, a
\* background escape for the lower pixel and the upper half block, then one reset.
ColouredLine(line, k) ==
    LET escapes == {i \in 1..Len(line) : line[i] = Esc}
        glyphs  == {i \in 1..Len(line) : line[i] \in Glyphs}
    IN  /\ Cardinality(escapes) = 2 * W + 1
        /\ Cardinality(glyphs) = W
        /\ NthOf(escapes, 1) = 1
        /\ \A c \in 1..W :
              LET fore  == NthOf(escapes, 2 * c - 1)
                  back  == NthOf(escapes, 2 * c)
                  glyph == NthOf(glyphs, c)
              IN  /\ fore < back
                  /\ back < glyph
                  /\ glyph + 1 = NthOf(escapes, 2 * c + 1)
                  /\ line[glyph] = UpperHalfBlock
                  /\ StartsWith(line, fore, <<Esc, "[", "3", "8", ";">>)
                  /\ StartsWith(line, back, <<Esc, "[", "4", "8", ";">>)
                  /\ SubSeq(line, fore, back - 1) \o SubSeq(line, back, glyph - 1)
                        = (IF colorDepth.s = "truecolor"
                           THEN getAnsiTruecolor(pixelCanvas[2 * (k - 1)][c - 1],
                                                 pixelCanvas[2 * (k - 1) + 1][c - 1])
                           ELSE getAnsi256Color(pixelCanvas[2 * (k - 1)][c - 1],
                                                pixelCanvas[2 * (k - 1) + 1][c - 1]))
        /\ {i \in 1..Len(line) : StartsWith(line, i, ResetCode)} = {Len(line) - 3}

LastShape == shapes[loc.si + 1]

LastStroke == IF hasStroke(LastShape) THEN ColorOf(LastShape.strokeColor) ELSE Black

LastFill == ColorOf(sampleShapePattern(LastShape, loc.x, loc.y))

\* One channel of premul + existing * (1 - A), rounded once, for the alphas of the
\* last iteration.
RoundedOnce(strokeC, fillC, existing) ==
    LET outA == combinedAlpha(loc.fillAlpha, loc.strokeAlpha)
    IN  MathRound(premul(strokeC, fillC, loc.fillAlpha, loc.strokeAlpha)
                     + existing * (outA.d - outA.n), outA.d)

\* C18: when a shape has contributed to a pixel, each channel of the pixel is
\* premul + existing * (1 - A) rounded to the nearest integer once, with premul =
\* stroke * strokeAlpha + fill * fillAlpha * (1 - strokeAlpha) and A = strokeAlpha +
\* fillAlpha * (1 - strokeAlpha).
C18_RoundedOnce ==
    (pc \in {"loop", "encode"} /\ loc.blended) =>
        /\ pixelCanvas[loc.y][loc.x].red
              = RoundedOnce(LastStroke.red, LastFill.red, loc.existing.red)
        /\ pixelCanvas[loc.y][loc.x].green
              = RoundedOnce(LastStroke.green, LastFill.green, loc.existing.green)
        /\ pixelCanvas[loc.y][loc.x].blue
              = RoundedOnce(LastStroke.blue, LastFill.blue, loc.existing.blue)

\* strokeWidth * worldUnitsPerPixel for the shape of the last iteration.
LastStrokeWorld == (LastShape.strokeWidth.n * worldUnitsPerPixel(W, H)) \div NumDen

\* The gap between the distance of the last iteration and the stroke band of its
\* shape: 0 in the band.
LastGap ==
    LET low  == CASE LastShape.strokePosition.s = "inside"  -> -LastStrokeWorld
                  [] LastShape.strokePosition.s = "outside" -> 0
                  [] OTHER                                  -> (-LastStrokeWorld) \div 2
        high == CASE LastShape.strokePosition.s = "inside"  -> 0
                  [] LastShape.strokePosition.s = "outside" -> LastStrokeWorld
                  [] OTHER                                  -> LastStrokeWorld \div 2
    IN  Max2(0, Max2(low - loc.distance, loc.distance - high))

\* The shapes of the call with the stroke of shape i (from 1) put elsewhere and
\* painted in another colour.
Restroked(i, position, color) ==
    [shapes EXCEPT ![i].strokePosition = Str(position), ![i].strokeColor = color]

\* C19: the stroke alpha of a shape at a pixel is 1 in the stroke band, 1 - g / (aaRegion
\* / 2) at a gap g from the band below aaRegion / 2 and 0 from there on; a shape of
\* strokeWidth 0 has stroke alpha 0 at every pixel, and the string returned is the
\* same for any strokePosition and strokeColor of such a shape.
C19_StrokeAlpha ==
    /\ (pc \in {"loop", "encode"} /\ loc.si >= 0 /\ ~loc.culled) =>
          LET aaEdge == aaRegion(W, H) \div 2
              alpha  == loc.strokeAlpha
          IN  IF LastShape.strokeWidth.n = 0 THEN alpha.n = 0
              ELSE IF LastGap = 0 THEN alpha.n = alpha.d
              ELSE IF LastGap < aaEdge
              THEN /\ alpha.n * aaEdge = alpha.d * (aaEdge - LastGap)
                   /\ alpha.n > 0
                   /\ alpha.n < alpha.d
              ELSE alpha.n = 0
    /\ (pc = "done") =>
          \A i \in 1..Len(shapes) :
              shapes[i].strokeWidth.n = 0 =>
                  \A position \in StrokePositions : \A color \in {validOrange, Rgb(1, 2, 3)} :
                      result = encodeCanvas(composite(ENABLE_BOX_CULLING, W, H, args.background,
                                                      Restroked(i, position, color)),
                                            W, H, colorDepth.s)

C19_Witness ==
    /\ pc = "loop"
    /\ ~loc.culled
    /\ loc.si = 0
    /\ Len(shapes) = 2
    /\ shapes[2].strokeWidth.n = 0
    /\ LastShape.strokeWidth.n > 0
    /\ LastGap > 0
    /\ loc.strokeAlpha.n > 0
    /\ loc.strokeAlpha.n < loc.strokeAlpha.d

----------------------------------------------------------------------------
(* The alphas of a stroked circle at distances around the edges of its reach *)

ReachCanvases == { <<1, 2>>, <<2, 2>>, <<3, 4>>, <<10, 10>> }

\* A circle of radius ProbeSize with a stroke of a number of quarter pixels.
ReachShape(quarters, position) ==
    Shape("circle", ProbeSize, 0, 0, validOrange, validBlue, "breton", quarters, position,
          validBlue)

\* A distance where an alpha or the box changes: the boundary, an end of the fill
\* ramp, an end of the stroke band or of its ramps, the edge of the box.  part is
\* the number of half stroke widths and ramp the number of half aaRegions in it.
ReachEdge(w, h, quarters, sign, part, ramp) ==
    LET aa     == aaRegion(w, h)
        stroke == (quarters * worldUnitsPerPixel(w, h)) \div NumDen
    IN  sign * (part * (stroke \div 2) + ramp * (aa \div 2))

ReachProbes ==
    { [fn |-> "reach", w |-> c[1], h |-> c[2], quarters |-> q, position |-> position,
       distance |-> ReachEdge(c[1], c[2], q, sign, part, ramp) + delta, applied |-> FALSE,
       fillAlpha |-> [n |-> 0, d |-> 1], strokeAlpha |-> [n |-> 0, d |-> 1],
       expand |-> 0] :
         c \in ReachCanvases, q \in 0..(10 * NumDen), position \in StrokePositions,
         sign \in {-1, 1}, part \in 0..2, ramp \in 0..2, delta \in (-MaxDelta)..MaxDelta }

InitReach == InitProbe(ReachProbes)

\* The fill alpha and the stroke alpha at the distance (lines 213-262), and the
\* expansion the shape's box was built with (lines 101-121).
ApplyReach ==
    /\ probe.fn = "reach"
    /\ ~probe.applied
    /\ LET aa    == aaRegion(probe.w, probe.h)
           shape == ReachShape(probe.quarters, probe.position)
           box   == shapeBox(shape, probe.w, probe.h)
       IN  probe' = [probe EXCEPT
                        !.applied = TRUE,
                        !.fillAlpha = fillAlphaAt(probe.distance, aa),
                        !.strokeAlpha = strokeAlphaAt(shape, probe.distance,
                                                      worldUnitsPerPixel(probe.w, probe.h), aa),
                        !.expand = box.maxX - PosX(shape) - SizeOf(shape)]
    /\ UNCHANGED <<pc, args, colorDepth, err, pixelCanvas, x, y, si, loc, result, memo>>

SpecReach == InitReach /\ [][ApplyReach]_vars

\* The outward reach of the stroke of the probed shape: strokeWidth *
\* worldUnitsPerPixel for outside, half of it for center, nothing for inside.
ProbeExtension ==
    LET strokeWorld == (probe.quarters * worldUnitsPerPixel(probe.w, probe.h)) \div NumDen
    IN  CASE probe.position = "outside" -> strokeWorld
          [] probe.position = "center"  -> strokeWorld \div 2
          [] OTHER                                    -> 0

\* C20: the box of a shape is expanded by aaRegion plus the outward reach of its
\* stroke, and wherever the fill alpha or the stroke alpha of the shape is not 0
\* the signed distance is less than that reach plus aaRegion / 2, which is no more
\* than the expansion; for inside, center and outside strokes of every width from
\* 0 to 10.
C20_ExpandCoversAlpha ==
    (probe.fn = "reach" /\ probe.applied) =>
        LET aa == aaRegion(probe.w, probe.h)
        IN  /\ probe.expand = aa + ProbeExtension
            /\ ProbeExtension + aa \div 2 <= probe.expand
            /\ (probe.fillAlpha.n > 0 \/ probe.strokeAlpha.n > 0) =>
                  probe.distance < ProbeExtension + aa \div 2

C20_Witness ==
    /\ probe.fn = "reach"
    /\ probe.applied
    /\ probe.position = "outside"
    /\ probe.quarters = 10 * NumDen
    /\ probe.fillAlpha.n = 0
    /\ probe.strokeAlpha.n > 0
    /\ probe.distance = ProbeExtension + aaRegion(probe.w, probe.h) \div 2 - 1

----------------------------------------------------------------------------
(* The boxes and the signed distances at points along the edges of the boxes *)

BoxSteps == 8

BoxExpands == {0, 1, 204, 1020, 3000}

BoxCentres == { <<0, 0>>, <<2, -1>> }

\* A shape of a kind and size at a centre.
BoxShape(kind, size, centre) ==
    Shape(kind, size, centre[1], centre[2], validOrange, validBlue, "breton", 0, "center",
          validBlue)

\* Half the width and half the height the box of a shape is meant to have.
BoxHalfWidth(kind, size, expand) == size * WorldScale + expand

BoxHalfHeight(kind, size, expand) ==
    IF kind = "triangle" THEN (size * WorldScale * 12) \div 10 + expand
    ELSE size * WorldScale + expand

\* A point at a step along a side of that box, out world lengths beyond it; for the
\* sides at the base, a point step world lengths from the level of a triangle's base,
\* size / sqrt(3) below the centre.
BoxPoint(kind, size, centre, expand, side, out, step) ==
    LET hx == BoxHalfWidth(kind, size, expand)
        hy == BoxHalfHeight(kind, size, expand)
        cx == centre[1] * WorldScale
        cy == centre[2] * WorldScale
        base == MathRound(size * WorldScale * Sqrt3Num, 3 * Sqrt3Den)
    IN  CASE side = "leftBase"  -> <<cx - hx - out, cy + base + step>>
          [] side = "rightBase" -> <<cx + hx + out, cy + base + step>>
          [] side = "left"   -> <<cx - hx - out, cy + (step * (hy + MaxDelta)) \div BoxSteps>>
          [] side = "right"  -> <<cx + hx + out, cy + (step * (hy + MaxDelta)) \div BoxSteps>>
          [] side = "top"    -> <<cx + (step * (hx + MaxDelta)) \div BoxSteps, cy - hy - out>>
          [] side = "bottom" -> <<cx + (step * (hx + MaxDelta)) \div BoxSteps, cy + hy + out>>

BoxProbes ==
    { [fn |-> "box", kind |-> kind, size |-> size, centre |-> centre, expand |-> expand,
       point |-> BoxPoint(kind, size, centre, expand, side, out, step),
       applied |-> FALSE, distance |-> 0, apex |-> 0,
       box |-> [minX |-> 0, maxX |-> 0, minY |-> 0, maxY |-> 0]] :
         kind \in Kinds, size \in 1..ProbeSize, centre \in BoxCentres, expand \in BoxExpands,
         side \in {"left", "right", "top", "bottom", "leftBase", "rightBase"},
         out \in (-MaxDelta)..MaxDelta,
         step \in (-BoxSteps)..BoxSteps }

InitBox == InitProbe(BoxProbes)

\* The box of the shape for the expansion (aabbCircle, aabbSquare, aabbTriangle), its
\* signed distance at the point and, for a triangle, at the place 2 * size / sqrt(3)
\* above its centre.
ApplyBox ==
    /\ probe.fn = "box"
    /\ ~probe.applied
    /\ LET shape == BoxShape(probe.kind, probe.size, probe.centre)
           above == MathRound(2 * SizeOf(shape) * Sqrt3Num, 3 * Sqrt3Den)
       IN  probe' = [probe EXCEPT
                        !.applied = TRUE,
                        !.box = (CASE probe.kind = "circle"   -> aabbCircle(shape, probe.expand)
                                   [] probe.kind = "square"   -> aabbSquare(shape, probe.expand)
                                   [] probe.kind = "triangle" -> aabbTriangle(shape, probe.expand)),
                        !.distance = shapeDistance(shape, probe.point[1], probe.point[2]),
                        !.apex = IF probe.kind = "triangle"
                                 THEN shapeDistance(shape, PosX(shape), PosY(shape) - above)
                                 ELSE 0]
    /\ UNCHANGED <<pc, args, colorDepth, err, pixelCanvas, x, y, si, loc, result, memo>>

SpecBox == InitBox /\ [][ApplyBox]_vars

\* Whether the probed point lies in the box computed for it, edges included.
PointInBox ==
    /\ probe.point[1] >= probe.box.minX
    /\ probe.point[1] <= probe.box.maxX
    /\ probe.point[2] >= probe.box.minY
    /\ probe.point[2] <= probe.box.maxY

\* Whether the probed point is no more than one world length, the unit distances
\* are rounded to, outside the box.
PointAtBox ==
    /\ probe.point[1] >= probe.box.minX - 1
    /\ probe.point[1] <= probe.box.maxX + 1
    /\ probe.point[2] >= probe.box.minY - 1
    /\ probe.point[2] <= probe.box.maxY + 1

----------------------------------------------------------------------------
(* The world coordinates of pixel centres, for the canvas sizes they are exact for *)

\* The valid canvas sizes whose pixel pitch is a whole number of world lengths on
\* both axes.
ExactSizes ==
    { c \in (1..120) \X {2 * k : k \in 1..32} : (5 * WorldScale) % Min2(c[1], c[2]) = 0 }

\* A column and a row of a canvas: the first, the second, the middle, the last.
PixelsOf(c) ==
    { p \in {0, 1, c[1] \div 2, c[1] - 1} \X {0, 1, c[2] \div 2, c[2] - 1} :
         p[1] < c[1] /\ p[2] < c[2] }

WorldProbes ==
    { [fn |-> "world", w |-> q[1][1], h |-> q[1][2], col |-> q[2][1], row |-> q[2][2],
       applied |-> FALSE, pitch |-> 0, width |-> 0, height |-> 0,
       worldX |-> 0, nextX |-> 0, worldY |-> 0, nextY |-> 0] :
         q \in { r \in ExactSizes \X ((0..119) \X (0..63)) : r[2] \in PixelsOf(r[1]) } }

InitWorld == InitProbe(WorldProbes)

\* worldUnitsPerPixel, worldWidth, worldHeight and the entries of worldXs and worldYs
\* for a pixel and for its neighbour to the right and below, where there is one
\* (lines 88, 137-153).
ApplyWorld ==
    /\ probe.fn = "world"
    /\ ~probe.applied
    /\ probe' = [probe EXCEPT
                    !.applied = TRUE,
                    !.pitch = worldUnitsPerPixel(probe.w, probe.h),
                    !.width = worldWidth(probe.w, probe.h),
                    !.height = worldHeight(probe.w, probe.h),
                    !.worldX = worldXs(probe.col, probe.w, probe.h),
                    !.nextX = worldXs(Min2(probe.col + 1, probe.w - 1), probe.w, probe.h),
                    !.worldY = worldYs(probe.row, probe.w, probe.h),
                    !.nextY = worldYs(Min2(probe.row + 1, probe.h - 1), probe.w, probe.h)]
    /\ UNCHANGED <<pc, args, colorDepth, err, pixelCanvas, x, y, si, loc, result, memo>>

SpecWorld == InitWorld /\ [][ApplyWorld]_vars

\* C22: pixels are square in world units: neighbouring pixel centres are 10 /
\* min(canvasWidth, canvasHeight) apart on both axes, worldWidth / canvasWidth =
\* worldHeight / canvasHeight = worldUnitsPerPixel, the smaller dimension of the
\* canvas spans 10 world units and the larger 10 * max / min, and the centre of pixel i
\* of an axis is at ((i + 0.5) / count - 0.5) * worldExtent.
C22_SquarePixels ==
    (probe.fn = "world" /\ probe.applied) =>
        LET small == Min2(probe.w, probe.h)
            large == Max2(probe.w, probe.h)
        IN  /\ probe.pitch * small = 10 * WorldScale
            /\ probe.col + 1 < probe.w => probe.nextX - probe.worldX = probe.pitch
            /\ probe.row + 1 < probe.h => probe.nextY - probe.worldY = probe.pitch
            /\ probe.width = probe.w * probe.pitch
            /\ probe.height = probe.h * probe.pitch
            /\ (IF probe.w <= probe.h THEN probe.width ELSE probe.height) = 10 * WorldScale
            /\ (IF probe.w <= probe.h THEN probe.height ELSE probe.width) * small
                  = 10 * WorldScale * large
            /\ 2 * probe.w * probe.worldX = (2 * probe.col + 1 - probe.w) * probe.width
            /\ 2 * probe.h * probe.worldY = (2 * probe.row + 1 - probe.h) * probe.height

C22_Witness ==
    /\ probe.fn = "world"
    /\ probe.applied
    /\ probe.w = 25
    /\ probe.h = 60
    /\ probe.col = 12
    /\ probe.row = 0
    /\ probe.worldX = 0
    /\ probe.nextX = probe.pitch
    /\ 2 * probe.worldY = probe.pitch - probe.height

\* Whether every shape of the call is culled at pixel (col, row) or has fill alpha 0
\* and stroke alpha 0 there.
Untouched(col, row) ==
    \A k \in 0..(Len(shapes) - 1) :
        LET it == shapeLoop(ENABLE_BOX_CULLING, shapes, W, H, col, row, k, Black).loc
        IN  it.culled \/ (it.fillAlpha.n = 0 /\ it.strokeAlpha.n = 0)

\* The colour the background alone gives pixel (col, row).
Ground(col, row) == drawBackground(newPixelCanvas(W, H), args.background)[row][col]

\* A pixel no shape affects has its background colour in the grid and, in
\* truecolor, in the string returned.
UntouchedKeepGround ==
    (pc = "done") =>
        \A row \in 0..(H - 1) : \A col \in 0..(W - 1) :
            Untouched(col, row) =>
                /\ pixelCanvas[row][col] = Ground(col, row)
                /\ colorDepth = Str("truecolor") =>
                      (IF row % 2 = 0
                       THEN Foreground(Lines(result)[row \div 2 + 1], col)
                       ELSE Backdrop(Lines(result)[row \div 2 + 1], col)) = Ground(col, row)

\* An iteration of the shape loop writes no cell but that of its pixel, and not even
\* that one when the shape is culled or both of its alphas are 0.
IterationFrame ==
    (pc = "loop") =>
        /\ \A row \in 0..(H - 1) : \A col \in 0..(W - 1) :
              (row # y \/ col # x) => pixelCanvas'[row][col] = pixelCanvas[row][col]
        /\ (loc'.culled \/ (loc'.fillAlpha.n = 0 /\ loc'.strokeAlpha.n = 0)) =>
              pixelCanvas' = pixelCanvas

\* C23: a shape that is culled at a pixel, or whose fill and stroke alpha are both 0
\* there, leaves the pixel's colour as it is; compositing a shape at a pixel changes
\* no other cell of the grid; a pixel that no shape affects has exactly its
\* background colour in the output.
C23_Frame == [][IterationFrame]_vars /\ []UntouchedKeepGround

C23_Witness ==
    /\ pc = "done"
    /\ colorDepth = Str("truecolor")
    /\ Len(shapes) = 1
    /\ \E row \in 0..(H - 1) : \E col \in 0..(W - 1) :
          /\ Untouched(col, row)
          /\ shapeLoop(FALSE, shapes, W, H, col, row, 0, Black).loc.fillAlpha.n = 0
          /\ shapeLoop(ENABLE_BOX_CULLING, shapes, W, H, col, row, 0, Black).loc.culled
    /\ \E row \in 0..(H - 1) : \E col \in 0..(W - 1) :
          /\ ~Untouched(col, row)
          /\ pixelCanvas[row][col] # Ground(col, row)


(***************************************************************************)
(* The kinds the validation accepts and the kinds the renderer implements. *)
(***************************************************************************)

\* The box shapeBoxes gives a shape of a kind without a case.
CatchAllBox ==
    [minX |-> -1000000 * WorldScale, maxX |-> 1000000 * WorldScale,
     minY |-> -1000000 * WorldScale, maxY |-> 1000000 * WorldScale]

Validated == pc \in {"validated", "canvas", "loop", "encode", "done"}

\* C24: the kinds validateShape accepts are the kinds with an SDF case and the
\* kinds with an AABB case; so once a scene has passed validation every shape has
\* a kind with both cases, no shape gets the catch-all box, and no render ever
\* throws "is not implemented".
C24_KindsImplemented ==
    /\ Kinds = SdfKinds
    /\ Kinds = BoxKinds
    /\ Validated =>
           \A i \in 1..Len(shapes) :
               /\ shapes[i].kind.s \in SdfKinds \cap BoxKinds
               /\ shapeBox(shapes[i], W, H) # CatchAllBox
    /\ err # NoError => err.what # "is not implemented"
    /\ (pc = "loop" /\ loc.si >= 0) =>
           ~shapeLoop(ENABLE_BOX_CULLING, shapes, W, H, loc.x, loc.y, loc.si,
                      loc.existing).unimplemented

\* An iteration has computed the distance to a triangle, the last kind of the
\* switch, of a scene of two shapes.
C24_Witness ==
    /\ pc = "loop"
    /\ loc.si = 1
    /\ ~loc.culled
    /\ Len(shapes) = 2
    /\ LastShape.kind.s = "triangle"
    /\ shapeBox(LastShape, W, H) # CatchAllBox


(***************************************************************************)
(* The work of the pixel loop, one pixel at a time in any order: every     *)
(* pixel takes its background first and then the shapes in list order, and *)
(* the steps of different pixels interleave freely.                        *)
(***************************************************************************)

OrderCanvases == { <<2, 2>>, <<3, 1>>, <<1, 3>> }

\* stage[row][col] is 0 before the pixel's background, and k + 1 once k shapes have
\* been composited at the pixel.
OrderProbes ==
    { [fn |-> "order", w |-> size[1], h |-> size[2], background |-> background,
       list |-> list, grid |-> newPixelCanvas(size[1], size[2]),
       stage |-> [row \in 0..(size[2] - 1) |-> [col \in 0..(size[1] - 1) |-> 0]]] :
        size \in OrderCanvases, background \in ValidBackgrounds,
        list \in SeqsUpTo(ShapePool, MaxShapes) }

\* A step that takes the existing colour from the cell of the pixel to the left.
pixelStepLeft(p, col, row) ==
    LET left == (col + p.w - 1) % p.w
    IN  IF p.stage[row][col] = 0
        THEN drawBackground(newPixelCanvas(p.w, p.h), p.background)[row][col]
        ELSE shapeLoop(ENABLE_BOX_CULLING, p.list, p.w, p.h, col, row,
                       p.stage[row][col] - 1, p.grid[row][left]).cell

\* The next step of one pixel: its cell of the background, or one iteration of the
\* shape loop on the pixel's own cell.
pixelStep(p, col, row) ==
    IF p.stage[row][col] = 0
    THEN drawBackground(newPixelCanvas(p.w, p.h), p.background)[row][col]
    ELSE shapeLoop(ENABLE_BOX_CULLING, p.list, p.w, p.h, col, row,
                   p.stage[row][col] - 1, p.grid[row][col]).cell

InitOrder == InitProbe(OrderProbes)

ApplyOrder ==
    /\ probe.fn = "order"
    /\ \E row \in 0..(probe.h - 1), col \in 0..(probe.w - 1) :
           /\ probe.stage[row][col] <= Len(probe.list)
           /\ probe' = [probe EXCEPT !.grid[row][col] = pixelStep(probe, col, row),
                                     !.stage[row][col] = @ + 1]
    /\ UNCHANGED <<pc, args, colorDepth, err, pixelCanvas, x, y, si, loc, result, memo>>

SpecOrder == InitOrder /\ [][ApplyOrder]_vars

\* The colour the row-major loop leaves at a pixel after the first k shapes.
RowMajorAfter(p, col, row, k) ==
    paint(ENABLE_BOX_CULLING, SubSeq(p.list, 1, k), p.w, p.h, col, row, 0,
          drawBackground(newPixelCanvas(p.w, p.h), p.background)[row][col])

OrderFinished ==
    \A row \in 0..(probe.h - 1), col \in 0..(probe.w - 1) :
        probe.stage[row][col] = Len(probe.list) + 1

\* A step changes the cell and the stage of one pixel and of no other.
OneCellStep ==
    \E row \in 0..(probe.h - 1), col \in 0..(probe.w - 1) :
        \A r \in 0..(probe.h - 1), c \in 0..(probe.w - 1) :
            (r # row \/ c # col) =>
                /\ probe'.grid[r][c] = probe.grid[r][c]
                /\ probe'.stage[r][c] = probe.stage[r][c]

\* C25: whatever the order in which the pixels are taken, and however the steps of
\* different pixels interleave, a pixel that has taken its background and its
\* first k shapes holds the colour the row-major loop gives it after k shapes, so
\* the finished grid is the grid of the row-major loop; and a step of one pixel
\* leaves every other cell as it was.
C25_AnyPixelOrder ==
    /\ [][OneCellStep]_vars
    /\ [](\A row \in 0..(probe.h - 1), col \in 0..(probe.w - 1) :
              probe.stage[row][col] > 0 =>
                  probe.grid[row][col] =
                      RowMajorAfter(probe, col, row, probe.stage[row][col] - 1))
    /\ [](OrderFinished =>
              probe.grid = composite(ENABLE_BOX_CULLING, probe.w, probe.h,
                                     probe.background, probe.list))

\* The last pixel of a 2 x 2 grid has taken both shapes, which changed its colour,
\* while the first pixel has not taken its background and the pixel between them
\* is one shape behind.
C25_Witness ==
    /\ probe.w = 2
    /\ probe.h = 2
    /\ Len(probe.list) = 2
    /\ probe.stage[1][1] = 3
    /\ probe.stage[0][0] = 0
    /\ probe.stage[0][1] = 2
    /\ probe.grid[1][1] #
           drawBackground(newPixelCanvas(probe.w, probe.h), probe.background)[1][1]


(***************************************************************************)
(* The triangle's distance on the vertical line through its centre.        *)
(***************************************************************************)

\* Offsets from the centre, in world lengths, up to five quarters of the largest
\* size.
ApexOffsets == 0..((5 * ProbeSize * WorldScale) \div 4)

ApexProbes ==
    { [fn |-> "apex", size |-> size, centre |-> centre, offset |-> offset,
       applied |-> FALSE, above |-> 0, below |-> 0] :
        size \in 1..ProbeSize, centre \in BoxCentres, offset \in ApexOffsets }

InitApex == InitProbe(ApexProbes)

\* The triangle case of the shape loop's switch at (cx, cy - d) and at (cx, cy + d).
ApplyApex ==
    /\ probe.fn = "apex"
    /\ ~probe.applied
    /\ LET shape == BoxShape("triangle", probe.size, probe.centre)
       IN  probe' = [probe EXCEPT
                        !.applied = TRUE,
                        !.above = shapeDistance(shape, PosX(shape), PosY(shape) - probe.offset),
                        !.below = shapeDistance(shape, PosX(shape), PosY(shape) + probe.offset)]
    /\ UNCHANGED <<pc, args, colorDepth, err, pixelCanvas, x, y, si, loc, result, memo>>

SpecApex == InitApex /\ [][ApplyApex]_vars

\* r / sqrt(3) < d - margin and d + margin < 2 r / sqrt(3), for world lengths r
\* and d
BetweenBaseAndApex(r, d, margin) ==
    /\ d - margin > 0
    /\ 3 * (d - margin) * (d - margin) > r * r
    /\ 3 * (d + margin) * (d + margin) < 4 * r * r

\* C26: for a triangle of size r centred at (cx, cy) and r / sqrt(3) < d <
\* 2 r / sqrt(3), the distance at (cx, cy - d) is negative and the distance at
\* (cx, cy + d) is positive. Distances are whole world lengths here, so within one
\* world length of either end of the interval the distance may round to zero, and
\* there it is checked not to have the other sign.
C26_ApexUp ==
    probe.applied =>
        LET r == probe.size * WorldScale
        IN  /\ BetweenBaseAndApex(r, probe.offset, 1) =>
                   (probe.above < 0 /\ probe.below > 0)
            /\ BetweenBaseAndApex(r, probe.offset, 0) =>
                   (probe.above <= 0 /\ probe.below >= 0)

\* A triangle of size 2 away from the origin, at an offset just below the apex
\* and at one just beyond the base.
C26_Witness ==
    /\ probe.applied
    /\ probe.size = 2
    /\ probe.centre = <<2, -1>>
    /\ probe.offset \in {279, 552}
    /\ BetweenBaseAndApex(probe.size * WorldScale, probe.offset, 1)
    /\ probe.above < 0
    /\ probe.below > 0


(***************************************************************************)
(* The range of the channels of the grid.                                  *)
(***************************************************************************)

ByteColor(cell) ==
    /\ cell.red \in 0..255
    /\ cell.green \in 0..255
    /\ cell.blue \in 0..255

\* C27: from the creation of the grid on, that is after the background and after
\* every blend as well, every channel of every pixel is an integer of 0..255, and
\* so is every channel of the colour a shape is blended with; the full-colour
\* escapes are written from those pixels.
C27_ChannelsAreBytes ==
    /\ pc \in {"canvas", "loop", "encode", "done"} =>
           /\ DOMAIN pixelCanvas = 0..(H - 1)
           /\ \A row \in 0..(H - 1) :
                  /\ DOMAIN pixelCanvas[row] = 0..(W - 1)
                  /\ \A col \in 0..(W - 1) : ByteColor(pixelCanvas[row][col])
    /\ ByteColor(loc.color)
    /\ (pc = "done" /\ colorDepth = Str("truecolor")) =>
           result = encodeCanvas(pixelCanvas, W, H, "truecolor")

\* A blend with an alpha strictly between 0 and 1 has left a channel at 255 and
\* another at 0.
C27_Witness ==
    /\ pc = "loop"
    /\ loc.blended
    /\ loc.color.alpha.n < loc.color.alpha.d
    /\ LET cell == pixelCanvas[loc.y][loc.x]
       IN  /\ 255 \in {cell.red, cell.green, cell.blue}
           /\ 0 \in {cell.red, cell.green, cell.blue}
           /\ cell # loc.existing


(***************************************************************************)
(* The combined alpha at the un-premultiply step.                          *)
(***************************************************************************)

UnitFraction(alpha) == alpha.d > 0 /\ alpha.n >= 0 /\ alpha.n <= alpha.d

\* The last iteration went past the early continue of line 265.
ReachedUnpremultiply ==
    /\ pc \in {"loop", "encode", "done"}
    /\ loc.si >= 0
    /\ ~loc.culled
    /\ (loc.fillAlpha.n # 0 \/ loc.strokeAlpha.n # 0)

\* C28: whenever an iteration reaches the un-premultiply step, the fill and stroke
\* alphas are in [0, 1] and A = strokeAlpha + fillAlpha * (1 - strokeAlpha) has
\* 0 < A <= 1, so the colour gets alpha A, not the defensive zero, and the blend is
\* performed.
C28_CombinedAlphaPositive ==
    ReachedUnpremultiply =>
        LET outA == [n |-> loc.strokeAlpha.n * loc.fillAlpha.d
                              + loc.fillAlpha.n * (loc.strokeAlpha.d - loc.strokeAlpha.n),
                     d |-> loc.fillAlpha.d * loc.strokeAlpha.d]
        IN  /\ UnitFraction(loc.fillAlpha)
            /\ UnitFraction(loc.strokeAlpha)
            /\ outA.n > 0
            /\ outA.n <= outA.d
            /\ loc.color.alpha = outA
            /\ loc.blended
            /\ pixelCanvas[loc.y][loc.x] = blend(loc.color, loc.existing)

\* An iteration with a fill and a stroke alpha both strictly between 0 and 1.
C28_Witness ==
    /\ ReachedUnpremultiply
    /\ loc.fillAlpha.n > 0
    /\ loc.fillAlpha.n < loc.fillAlpha.d
    /\ loc.strokeAlpha.n > 0
    /\ loc.strokeAlpha.n < loc.strokeAlpha.d
    /\ loc.blended


(***************************************************************************)
(* The divisions of a render, and the throws after the validation.         *)
(***************************************************************************)

\* The canvas sizes the validation lets through.
ValidCanvases == { size \in (1..120) \X (2..64) : size[2] % 2 = 0 }

\* aaRegion and aaRegion / 2, the two divisors of the alphas, on every valid
\* canvas
DivisorsPositive ==
    \A size \in ValidCanvases :
        /\ worldUnitsPerPixel(size[1], size[2]) > 0
        /\ aaRegion(size[1], size[2]) > 0
        /\ aaRegion(size[1], size[2]) \div 2 > 0

\* A render that has passed the validation does not throw.
NoThrowOnceValidated ==
    pc \in {"validated", "canvas", "loop", "encode"} => (pc' # "threw" /\ err' = NoError)

\* C29: aaRegion is strictly positive for every valid canvas, so the divisors
\* aaRegion and aaRegion / 2 are not zero, every fill alpha, stroke alpha and
\* combined alpha of a render is a fraction with a positive denominator and a value
\* in [0, 1], every channel is a number of 0..255, and a render throws only in
\* its validation: before the grid exists and never afterwards.
C29_NoDivisionByZero ==
    /\ [][NoThrowOnceValidated]_vars
    /\ [](/\ DivisorsPositive
          /\ Validated => (aaRegion(W, H) > 0 /\ aaRegion(W, H) \div 2 > 0)
          /\ UnitFraction(loc.fillAlpha)
          /\ UnitFraction(loc.strokeAlpha)
          /\ UnitFraction(loc.color.alpha)
          /\ (loc.si >= 0 /\ ~loc.culled) =>
                 /\ loc.fillAlpha.d = aaRegion(W, H)
                 /\ loc.strokeAlpha.d = aaRegion(W, H) \div 2
          /\ pc = "threw" => (pixelCanvas = NoCanvas /\ loc = NoLocals)
          /\ pc = "done" => err = NoError)

\* A render of two shapes has finished, and its last iteration divided by
\* aaRegion and by aaRegion / 2 for alphas strictly between 0 and 1.
C29_Witness ==
    /\ pc = "done"
    /\ Len(shapes) = 2
    /\ ~loc.culled
    /\ loc.fillAlpha.n > 0
    /\ loc.fillAlpha.n < loc.fillAlpha.d
    /\ loc.strokeAlpha.n > 0
    /\ loc.strokeAlpha.n < loc.strokeAlpha.d


(***************************************************************************)
(* The render with its records held by reference: the caller's colour      *)
(* records, the black records of the new grid and the records the blend    *)
(* creates live in a heap, and a grid cell holds a reference into it.      *)
(***************************************************************************)

InkRef == <<"background", 0, 0>>

PaperRef == <<"background", 0, 1>>

\* The references to the colour records of the shape at index i: 0 is its ink,
\* 1 its paper and 2 its strokeColor.
ShapeRef(i, field) == <<"shape", i, field>>

CallerRefs(list) == {InkRef, PaperRef} \cup { ShapeRef(i, f) : i \in 1..Len(list), f \in 0..2 }

\* The records of the caller as renderAnsi receives them.
CallerHeap(background, list) ==
    [ref \in CallerRefs(list) |->
        IF ref = InkRef THEN ColorOf(background.ink)
        ELSE IF ref = PaperRef THEN ColorOf(background.paper)
        ELSE IF ref[3] = 0 THEN ColorOf(list[ref[2]].ink)
        ELSE IF ref[3] = 1 THEN ColorOf(list[ref[2]].paper)
        ELSE ColorOf(list[ref[2]].strokeColor)]

\* The black records Array.from creates, one for each cell.
BlackHeap(w, h) ==
    [ref \in { <<"black", row, col>> : row \in 0..(h - 1), col \in 0..(w - 1) } |-> Black]

HeapScenes ==
    { <<w, h, background, list>> :
        w \in 1..MaxWidth, h \in EvenHeights, background \in ValidBackgrounds,
        list \in SeqsUpTo(ShapePool, MaxShapes) }
    \cup { <<4, 4, Background(validOrange, validBlue, "breton"), <<shape>> >> :
             shape \in CornerShapes }

HeapProbes ==
    { [fn |-> "heap", w |-> scene[1], h |-> scene[2], background |-> scene[3],
       list |-> scene[4], at |-> "background", col |-> 0, row |-> 0, k |-> 0,
       heap |-> CallerHeap(scene[3], scene[4]) @@ BlackHeap(scene[1], scene[2]),
       grid |-> [row \in 0..(scene[2] - 1) |->
                    [col \in 0..(scene[1] - 1) |-> <<"black", row, col>>]]] :
        scene \in HeapScenes }

InitHeap == InitProbe(HeapProbes)

\* drawBackgroundBreton and drawBackgroundPinstripe store the reference to the
\* caller's ink or paper record in every cell.
HeapBackground ==
    /\ probe.fn = "heap"
    /\ probe.at = "background"
    /\ probe' = [probe EXCEPT
                    !.at = IF Len(probe.list) = 0 THEN "done" ELSE "loop",
                    !.grid = [row \in 0..(probe.h - 1) |->
                                 [col \in 0..(probe.w - 1) |->
                                     CASE probe.background.pattern.s = "breton" ->
                                              IF row % 2 = 0 THEN InkRef ELSE PaperRef
                                       [] probe.background.pattern.s = "pinstripe" ->
                                              IF col % 2 = 0 THEN InkRef ELSE PaperRef
                                       [] OTHER -> probe.grid[row][col]]]]
    /\ UNCHANGED <<pc, args, colorDepth, err, pixelCanvas, x, y, si, loc, result, memo>>

\* The shapes with their colour records read through the heap.
HeldShapes(p) ==
    [i \in 1..Len(p.list) |->
        LET ink    == p.heap[ShapeRef(i, 0)]
            paper  == p.heap[ShapeRef(i, 1)]
            stroke == p.heap[ShapeRef(i, 2)]
        IN  [p.list[i] EXCEPT !.ink = Rgb(ink.red, ink.green, ink.blue),
                              !.paper = Rgb(paper.red, paper.green, paper.blue),
                              !.strokeColor = Rgb(stroke.red, stroke.green, stroke.blue)]]

\* A blend that assigns the channels of the record the cell refers to.
storeBlendInPlace(p, cell) ==
    [heap |-> [p.heap EXCEPT ![p.grid[p.row][p.col]] = cell], grid |-> p.grid]

\* pixelCanvas[y][x] = { red: ..., green: ..., blue: ... }: a new record, and the
\* cell refers to it.
storeBlend(p, cell) ==
    LET created == <<"blend", p.row * p.w + p.col, p.k>>
    IN  [heap |-> (created :> cell) @@ p.heap,
         grid |-> [p.grid EXCEPT ![p.row][p.col] = created]]

\* One iteration of the shape loop, in the row-major order of the pixel loop.
HeapIteration ==
    /\ probe.fn = "heap"
    /\ probe.at = "loop"
    /\ LET it == shapeLoop(ENABLE_BOX_CULLING, HeldShapes(probe), probe.w, probe.h,
                           probe.col, probe.row, probe.k,
                           probe.heap[probe.grid[probe.row][probe.col]])
           stored == IF it.loc.blended THEN storeBlend(probe, it.cell)
                     ELSE [heap |-> probe.heap, grid |-> probe.grid]
           lastShape == probe.k + 1 = Len(probe.list)
           lastCol   == probe.col + 1 = probe.w
           lastRow   == probe.row + 1 = probe.h
       IN  probe' = [probe EXCEPT
                        !.heap = stored.heap,
                        !.grid = stored.grid,
                        !.k = IF lastShape THEN 0 ELSE probe.k + 1,
                        !.col = IF ~lastShape THEN probe.col
                                ELSE IF lastCol THEN 0 ELSE probe.col + 1,
                        !.row = IF lastShape /\ lastCol THEN probe.row + 1 ELSE probe.row,
                        !.at = IF lastShape /\ lastCol /\ lastRow THEN "done" ELSE "loop"]
    /\ UNCHANGED <<pc, args, colorDepth, err, pixelCanvas, x, y, si, loc, result, memo>>

SpecHeap == InitHeap /\ [][HeapBackground \/ HeapIteration]_vars

\* C30: at every point of a render the background's ink and paper records and the
\* ink, paper and strokeColor records of every shape hold the field values they
\* were passed with, although grid cells refer to the caller's ink and paper
\* records; and the finished grid, read through its references, is the grid of
\* the compositor.
C30_ArgumentsUntouched ==
    probe.fn = "heap" =>
        /\ \A ref \in CallerRefs(probe.list) :
               probe.heap[ref] = CallerHeap(probe.background, probe.list)[ref]
        /\ probe.at = "done" =>
               [row \in 0..(probe.h - 1) |->
                   [col \in 0..(probe.w - 1) |-> probe.heap[probe.grid[row][col]]]]
               = composite(ENABLE_BOX_CULLING, probe.w, probe.h, probe.background, probe.list)

\* A finished render in which one cell still refers to the caller's ink record
\* and another to a record the blend created.
C30_Witness ==
    /\ probe.fn = "heap"
    /\ probe.at = "done"
    /\ Len(probe.list) > 0
    /\ \E row \in 0..(probe.h - 1), col \in 0..(probe.w - 1) : probe.grid[row][col] = InkRef
    /\ \E row \in 0..(probe.h - 1), col \in 0..(probe.w - 1) :
           /\ probe.grid[row][col][1] = "blend"
           /\ probe.heap[probe.grid[row][col]] # probe.heap[InkRef]
           /\ probe.heap[probe.grid[row][col]] # probe.heap[PaperRef]

====
